---- MODULE Spec2Model ----
(***************************************************************************)
(* Model of src/src/discographyController.ts: the discography fetch        *)
(* orchestrator (phase machine, bulk fetcher, release normalizer, lazy     *)
(* hydrator and the two caches).                                           *)
(*                                                                         *)
(* JSON values of the remote service are tagged records:                   *)
(*   [t |-> "null"]            null / undefined                            *)
(*   [t |-> "str", v |-> s]    a string; s is the non-empty sequence of    *)
(*                             its ':'-separated segments ("" is <<"">>)   *)
(*   [t |-> "num", v |-> n]    a number                                    *)
(*   [t |-> "arr", v |-> seq]  an array                                    *)
(*   [t |-> "obj", v |-> seq]  an object: its <<key, value>> pairs in      *)
(*                             insertion order                             *)
(***************************************************************************)
EXTENDS Integers, Sequences, FiniteSets, Bags, TLC

(* ---------------- bounds of the model ---------------- *)
\* pipeline runs suspended at the same time
MaxRuns == 2
\* pipeline runs started in one behaviour
MaxStarts == 2
\* calls of hydrateAlbumDetails suspended at the same time
MaxHydrations == 2
\* releases in the merged map handed to the sort
MaxSortLen == 3
\* nesting levels of the values handed to collectReleasesDeep
MaxNest == 12

(* ---------------- JSON values ---------------- *)
JNull == [t |-> "null"]
JStr(s) == [t |-> "str", v |-> s]
JNum(n) == [t |-> "num", v |-> n]
JArr(s) == [t |-> "arr", v |-> s]
JObj(s) == [t |-> "obj", v |-> s]
S(tok) == JStr(<<tok>>)
EmptyStr == S("")

\* JavaScript truthiness
Truthy(x) ==
  CASE x.t = "null" -> FALSE
    [] x.t = "str" -> x.v # <<"">>
    [] x.t = "num" -> x.v # 0
    [] OTHER -> TRUE

\* a || b
Or(a, b) == IF Truthy(a) THEN a ELSE b

\* x.k (x?.k): undefined when x is not an object or has no such key
Get(x, k) ==
  IF x.t = "obj" /\ \E i \in 1..Len(x.v) : x.v[i][1] = k
  THEN x.v[CHOOSE i \in 1..Len(x.v) : x.v[i][1] = k][2]
  ELSE JNull

\* x?.k1?.k2
Get2(x, k1, k2) == Get(Get(x, k1), k2)

\* x?.[0]
Idx0(x) == IF x.t = "arr" /\ Len(x.v) > 0 THEN x.v[1] ELSE JNull

\* String.prototype.toLowerCase on one segment
LowerTok(tok) ==
  CASE tok = "ALBUM" -> "album"
    [] tok = "Single" -> "single"
    [] tok = "EP" -> "ep"
    [] OTHER -> tok

LowerSeq(s) == [i \in 1..Len(s) |-> LowerTok(s[i])]

\* String(n) for the numbers of the model
NumTok(n) == CASE n = 2020 -> "2020" [] n = 7 -> "7" [] OTHER -> "0"

\* x.toString() / `${x}` : the segments of the resulting string
ToStringJS(x) ==
  CASE x.t = "str" -> x.v
    [] x.t = "num" -> <<NumTok(x.v)>>
    [] OTHER -> <<"[object Object]">>

\* segments that contain the substring "album"
HasAlbumSubstr(tok) == tok \in {"album", "albums", "album_x"}

\* s.includes(":")
IncludesColon(s) == Len(s) > 1

\* s.includes("album")
IncludesAlbum(s) == \E i \in 1..Len(s) : HasAlbumSubstr(s[i])

(* ---------------- release normalizer ---------------- *)
NoRelease == [t |-> "null"]

\* mutant of AlbumTypeTags: tracks count as releases
AlbumTypeTagsWithTrack == {"album", "single", "compilation", "appears_on", "ep", "track"}

AlbumTypeTags == {"album", "single", "compilation", "appears_on", "ep"}

\* mutant of normalizeReleaseItem: a missing id or name is filled in, not rejected
normalizeWithPlaceholders(item) ==
  IF ~Truthy(item) THEN NoRelease
  ELSE [id |-> Or(Get(item, "id"), EmptyStr),
        name |-> Or(Get(item, "name"), S("Unknown")),
        release_date |-> Or(Get(item, "release_date"), EmptyStr),
        album_type |-> S("album"),
        uri |-> EmptyStr,
        imageUrl |-> EmptyStr]

normalizeReleaseItem(item) ==
  IF ~Truthy(item) THEN NoRelease
  ELSE
    LET uri == Or(Or(Or(Get(item, "uri"), Get2(item, "link", "uri")),
                     Get2(item, "album", "uri")), EmptyStr)
        idFromUri == IF uri.t = "str" /\ IncludesColon(uri.v)
                     THEN S(uri.v[Len(uri.v)]) ELSE EmptyStr
        id == Or(Or(Get(item, "id"), idFromUri), EmptyStr)
        name0 == Or(Or(Or(Or(Get(item, "name"), Get(item, "title")),
                          Get(item, "displayName")), Get(item, "release_name")),
                    EmptyStr)
        name ==
          IF ~Truthy(name0) /\ item.t \in {"obj", "arr"}
          THEN CASE Truthy(Get2(item, "album", "name")) -> Get2(item, "album", "name")
                 [] Truthy(Get2(item, "metadata", "name")) -> Get2(item, "metadata", "name")
                 [] Truthy(Get2(item, "content", "name")) -> Get2(item, "content", "name")
                 [] Truthy(Get2(item, "header", "title")) -> Get2(item, "header", "title")
                 [] Truthy(Get2(item, "header", "subtitle")) -> Get2(item, "header", "subtitle")
                 [] Truthy(Get2(item, "headerData", "title")) -> Get2(item, "headerData", "title")
                 [] OTHER -> name0
          ELSE name0
        albumTypeRaw ==
          LowerSeq(ToStringJS(Or(Or(Or(Or(Get(item, "album_type"), Get(item, "albumType")),
                                       Get(item, "type")), Get(item, "release_type")),
                                 EmptyStr)))
        isAlbumType == Len(albumTypeRaw) = 1 /\ albumTypeRaw[1] \in AlbumTypeTags
        isAlbumUri == uri.t = "str" /\ IncludesAlbum(uri.v)
        releaseDate == Or(Or(Or(Or(Get(item, "release_date"), Get(item, "releaseDate")),
                                Get(item, "release_date_iso")), Get(item, "date")),
                          EmptyStr)
        images == Or(Or(Or(Get(item, "images"), Get2(item, "coverArt", "sources")),
                        Get2(item, "image", "sources")), JArr(<<>>))
        imageUrl == Or(Or(Or(Get(Idx0(images), "url"), Get(Idx0(images), "uri")),
                          Get2(item, "image", "url")), EmptyStr)
    IN IF ~Truthy(id) \/ ~Truthy(name) THEN NoRelease
       ELSE IF ~isAlbumType /\ ~isAlbumUri THEN NoRelease
       ELSE [id |-> id,
             name |-> name,
             release_date |-> releaseDate,
             album_type |-> JStr(albumTypeRaw),
             uri |-> Or(uri, IF Truthy(id)
                             THEN JStr(<<"spotify", "album">> \o ToStringJS(id))
                             ELSE EmptyStr),
             imageUrl |-> imageUrl]

(* ---------------- deep collection and merge ---------------- *)
\* mutant of MaxDepth: the ceiling is one level too deep
MaxDepthOffByOne == 10 + 1

\* the depth ceiling of collectReleasesDeep
MaxDepth == 10

\* Map.prototype.has on the insertion-ordered release map
MapHas(releasesMap, id) ==
  \E i \in 1..Len(releasesMap) :
     releasesMap[i].id.t = id.t /\ releasesMap[i].id.v = id.v

\* mutant of MergeRelease: releasesMap.set without the has test, so that a later
\* release takes the place of the one stored under its id
MergeReleaseOverwrites(releasesMap, release) ==
  IF release = NoRelease THEN releasesMap
  ELSE IF MapHas(releasesMap, release.id)
  THEN [i \in 1..Len(releasesMap) |->
          IF releasesMap[i].id.t = release.id.t /\ releasesMap[i].id.v = release.id.v
          THEN release ELSE releasesMap[i]]
  ELSE Append(releasesMap, release)

\* if (release && !releasesMap.has(release.id)) releasesMap.set(release.id, release)
MergeRelease(releasesMap, release) ==
  IF release # NoRelease /\ ~MapHas(releasesMap, release.id)
  THEN Append(releasesMap, release)
  ELSE releasesMap

RECURSIVE collectReleasesDeep(_, _, _)
RECURSIVE collectEach(_, _, _, _)

\* value.forEach(child => collectReleasesDeep(child, releasesMap, depth)) from index i on
\* (the test of Len, always true, has the map evaluated before the next child)
collectEach(children, i, releasesMap, depth) ==
  IF i > Len(children) THEN releasesMap
  ELSE LET merged == collectReleasesDeep(children[i], releasesMap, depth)
       IN IF Len(merged) >= 0
          THEN collectEach(children, i + 1, merged, depth)
          ELSE merged

collectReleasesDeep(value, releasesMap, depth) ==
  IF ~Truthy(value) \/ depth > MaxDepth THEN releasesMap
  ELSE IF value.t = "arr" THEN collectEach(value.v, 1, releasesMap, depth + 1)
  ELSE IF value.t = "obj"
       THEN collectEach([i \in 1..Len(value.v) |-> value.v[i][2]], 1,
                        MergeRelease(releasesMap, normalizeReleaseItem(value)),
                        depth + 1)
  ELSE releasesMap

RECURSIVE mergeItems(_, _, _)
\* items.forEach(item => { const release = normalizeReleaseItem(item); ... })
mergeItems(items, i, releasesMap) ==
  IF i > Len(items) THEN releasesMap
  ELSE mergeItems(items, i + 1, MergeRelease(releasesMap, normalizeReleaseItem(items[i])))

(* ---------------- sort by release date, descending ---------------- *)
\* position of a date string in the order localeCompare gives the model's dates
DateRank(tok) ==
  CASE tok = "" -> 0
    [] tok = "2020" -> 1
    [] tok = "2020-01-01" -> 2
    [] tok = "2022-06-15" -> 3
    [] OTHER -> 0

\* x.localeCompare(y) with y converted to a string: negative, zero or positive
localeCompare(x, y) == DateRank(ToStringJS(x)[1]) - DateRank(ToStringJS(y)[1])

\* mutant of compareReleases: the operands are swapped (oldest first)
compareAscending(a, b) == localeCompare(a.release_date, b.release_date)

\* (a, b) => b.release_date.localeCompare(a.release_date)
compareReleases(a, b) == localeCompare(b.release_date, a.release_date)

RECURSIVE insertSorted(_, _, _)
\* stable insertion: r goes before the first element it must precede
insertSorted(sorted, i, r) ==
  IF i > Len(sorted) THEN Append(sorted, r)
  ELSE IF compareReleases(r, sorted[i]) < 0
       THEN SubSeq(sorted, 1, i - 1) \o <<r>> \o SubSeq(sorted, i, Len(sorted))
       ELSE insertSorted(sorted, i + 1, r)

RECURSIVE sortFrom(_, _, _)
sortFrom(list, i, sorted) ==
  IF i > Len(list) THEN sorted
  ELSE sortFrom(list, i + 1, insertSorted(sorted, 1, list[i]))

\* Array.from(releasesMap.values()).sort(compare)
sortReleases(releasesMap) == sortFrom(releasesMap, 1, <<>>)

\* b.release_date.localeCompare is no function when b.release_date is no string:
\* the comparator throws on such a b.  Which elements the engine passes as b is
\* its own choice, so with both kinds of date present either outcome can happen.
sortThrows(releasesMap) ==
  LET bad == {i \in 1..Len(releasesMap) : releasesMap[i].release_date.t # "str"}
  IN IF Len(releasesMap) < 2 \/ bad = {} THEN {FALSE}
     ELSE IF Cardinality(bad) = Len(releasesMap) THEN {TRUE}
     ELSE {TRUE, FALSE}

(* ---------------- rate-limit detection ---------------- *)
\* message.includes("429")
Has429(s) == \E i \in 1..Len(s) : s[i] \in {"429", "HTTP 429"}

\* message.toLowerCase().includes("rate")
HasRate(s) == \E i \in 1..Len(s) : s[i] \in {"Rate limit exceeded", "rate"}

isRateLimitError(err) ==
  LET status == Or(Or(Get(err, "status"), Get2(err, "response", "status")),
                   Get(err, "statusCode"))
      message == ToStringJS(Or(Get(err, "message"), EmptyStr))
  IN (status.t = "num" /\ status.v = 429) \/ Has429(message) \/ HasRate(message)

(* ---------------- the host: artists and what the fetch capability answers ---------------- *)
Artists == {"A", "B"}
NoArtist == "none"

Item(id, name, type, date) ==
  JObj(<< <<"id", S(id)>>, <<"name", S(name)>>, <<"type", S(type)>>,
          <<"release_date", date>> >>)

Page(items, next) == JObj(<< <<"items", JArr(items)>>, <<"next", next>> >>)

A1 == Item("A1", "X", "album", S("2020-01-01"))
A2 == Item("A2", "Y", "Single", S("2022-06-15"))
A3 == JObj(<< <<"uri", JStr(<<"spotify", "album", "A3">>)>>, <<"title", S("Z")>> >>)
A4 == Item("A4", "V", "album", JNum(2020))
A5 == Item("A5", "W", "ep", JNum(2020))
Malformed == JObj(<< <<"name", S("Foo")>> >>)
B1 == Item("B1", "P", "compilation", S("2020-01-01"))
B2 == Item("B2", "Q", "album", EmptyStr)

\* ids of the releases the host serves for an artist's URLs
IdsOf(a) == IF a = "A" THEN {"A1", "A2", "A3", "A4", "A5"} ELSE {"B1", "B2"}

\* what the overview endpoint may resolve with for an artist
OverviewResponses(a) ==
  IF a = "A"
  THEN { JObj(<< <<"sections", JArr(<<>>)>> >>),
         JObj(<< <<"releases", JArr(<<A1, Malformed, A2>>)>> >>),
         JObj(<< <<"releases", JArr(<<A4, A5>>)>> >>) }
  ELSE { JNull,
         JObj(<< <<"a", JObj(<< <<"b", JArr(<<B1>>)>> >>)>> >>) }

\* what the artist-albums endpoint may resolve with for an artist
PageResponses(a) ==
  IF a = "A"
  THEN { Page(<<>>, S("next-url")),
         Page(<<A3, A1>>, S("next-url")) }
  ELSE { Page(<<B2>>, JNull) }

\* what a fetch may reject with
Rejections ==
  { JObj(<< <<"status", JNum(429)>> >>),
    JObj(<< <<"message", S("Rate limit exceeded")>> >>),
    JObj(<< <<"message", S("Network error")>> >>) }

\* the album ids hydrateAlbumDetails is called with
AlbumIds == {"A1", "X7"}
NoAlbum == "none"

\* what the album endpoint may resolve with for an album id: a full detail
\* object (whose uri is not the one built from the id), an object without the
\* fields read, or no object
FullDetail(id) ==
  JObj(<< <<"name", S("X")>>, <<"release_date", S("2020-01-01")>>,
          <<"album_type", S("album")>>,
          <<"uri", JStr(<<"spotify", "album", id, "v2">>)>>,
          <<"images", JArr(<< JObj(<< <<"url", S("cover")>> >>) >>)>> >>)

DetailResponses(id) ==
  IF id = "A1" THEN {FullDetail(id), JNull}
  ELSE {JObj(<< <<"label", S("L")>> >>), JNull}

(* ---------------- program state ---------------- *)
VARIABLES
  phase,                    \* let phase
  activeArtistId,           \* let activeArtistId
  currentReleases,          \* let currentReleases
  discographyReleaseCache,  \* const discographyReleaseCache (artist -> list)
  albumCache,               \* const albumCache (release id -> raw detail)
  runs,                     \* the suspended calls of fetchDiscographyForArtist (a bag of frames)
  hydrations,               \* the suspended calls of hydrateAlbumDetails (a bag of frames)
  ev,                       \* what the last step did: the call made or resumed,
                            \* the value returned, the fetch issued
  started                   \* the number of pipeline runs started so far

vars == <<phase, activeArtistId, currentReleases, discographyReleaseCache,
          albumCache, runs, hydrations, ev, started>>

Phases == {"IDLE", "ARTISTVIEW", "COOLDOWN", "HYDRATING", "DONE", "ABORTED"}

\* phase and activeArtistId, the two variables the transition helpers write;
\* path: the values written to phase since the operation began, in order
Ctl(p, a) == [phase |-> p, activeArtistId |-> a, path |-> <<>>]

\* function transitionPhase(newPhase)
transitionPhase(ctl, newPhase) ==
  [ctl EXCEPT !.phase = newPhase, !.path = Append(ctl.path, newPhase)]

\* function abortCurrentWork()
abortCurrentWork(ctl) ==
  [transitionPhase(ctl, "ABORTED") EXCEPT !.activeArtistId = NoArtist]

\* mutant of reset: the phase goes IDLE but the active artist is kept
resetKeepsArtist(ctl) ==
  [phase |-> "IDLE", activeArtistId |-> ctl.activeArtistId, path |-> Append(ctl.path, "IDLE")]

\* function reset()
reset(ctl) ==
  [phase |-> "IDLE", activeArtistId |-> NoArtist, path |-> Append(ctl.path, "IDLE")]

\* mutant of assertPhase: the guard lets every phase pass
assertPhaseAny(allowed, p) == TRUE

\* function assertPhase(allowed): TRUE when it returns, FALSE when it throws
assertPhase(allowed, p) == p \in allowed

\* mutant of maxPages: one page more
maxPagesPlusOne == 2 + 1

\* page size and page count of fetchArtistAlbumsPaged
limit == 50
maxPages == 2

\* the milliseconds of the delay between two pages: await delay(5000)
pageDelayMs == 5000

\* the milliseconds of the delay before a detail fetch: await delay(30000)
hydrateDelayMs == 30000

\* Map entries: has tells whether the key is present, list is its value
NotCached == [has |-> FALSE, list |-> <<>>]
Cached(list) == [has |-> TRUE, list |-> list]

\* albumCache entries: has tells whether the id is present, detail is the raw
\* album object stored for it
NoDetail == [has |-> FALSE, detail |-> JNull]
Detail(album) == [has |-> TRUE, detail |-> album]

\* mutant of Finally: the finally block leaves the phase machine as it is
FinallySkips(ctl) == ctl

\* finally { if (phase !== "ABORTED") reset(); }
Finally(ctl) == IF ctl.phase # "ABORTED" THEN reset(ctl) ELSE ctl

\* catch (error) { transitionPhase("ABORTED"); reset(); return currentReleases; }
Catch(ctl) == reset(transitionPhase(ctl, "ABORTED"))

(* ---------------- the record of a step ---------------- *)
\* a fetch: its kind, the artist of the url, and for a page fetch the offset and
\* limit of `?offset=${offset}&limit=${limit}` (0 for the other kinds)
NoFetch == [kind |-> "none", artistId |-> NoArtist, offset |-> 0, limit |-> 0]
Fetch(kind, a, offset) ==
  [kind |-> kind, artistId |-> a, offset |-> offset,
   limit |-> IF kind = "page" THEN limit ELSE 0]

NoFlags == [aborted |-> FALSE, superseded |-> FALSE]

\* op: the operation that acted; outcome: how it ended; value: the list it returned
\* (for hydrateAlbumDetails the list of the one release returned, empty for null;
\* for getDiscographyStatus the list of the one status object);
\* fetch: the fetch it issued; aborted, superseded: what happened to the run that returns;
\* albumId: the argument of hydrateAlbumDetails, for the steps of a hydration;
\* phases: the values the step wrote to phase, in order
Event(op, a, outcome, value, fetch, f) ==
  [op |-> op, artistId |-> a, albumId |-> NoAlbum, outcome |-> outcome,
   value |-> value, fetch |-> fetch,
   aborted |-> f.aborted, superseded |-> f.superseded, phases |-> <<>>]

\* the step e of an operation that left the phase machine as ctl
Wrote(e, ctl) == [e EXCEPT !.phases = ctl.path]

\* a step of hydrateAlbumDetails(albumId); value is the release it returns, or null
HydrateEvent(op, albumId, outcome, value, fetch) ==
  [Event(op, NoArtist, outcome, IF value = JNull THEN <<>> ELSE <<value>>, fetch, NoFlags)
     EXCEPT !.albumId = albumId]

\* the outcomes with which a run ends
FailureOutcomes == {"failed", "empty", "exception"}

\* a call frame of fetchDiscographyForArtist, suspended at pc:
\*   "overview"  await Spicetify.CosmosAsync.get(url) in fetchArtistView
\*   "viewDone"  await fetchArtistView(artistId), which has returned view or thrown
\*   "page"      await Spicetify.CosmosAsync.get(url) in fetchArtistAlbumsPaged
\*   "delay"     await delay(5000)
\*   "pagedDone" await fetchArtistAlbumsPaged(...), which has returned
\* wait is the time of the delay awaited, in milliseconds (0 at the other awaits);
\* aborted and superseded record what happened to the run while it was suspended
Frame(a, pc, view, threw) ==
  [artistId |-> a, pc |-> pc, view |-> view, threw |-> threw,
   releasesMap |-> <<>>, page |-> 0, offset |-> 0, wait |-> 0,
   aborted |-> FALSE, superseded |-> FALSE]

RECURSIVE SumOver(_, _)
SumOver(B, fs) ==
  IF fs = {} THEN 0
  ELSE LET f == CHOOSE f \in fs : TRUE IN B[f] + SumOver(B, fs \ {f})

\* the bag with one frame f replaced by f1
Replace(B, f, f1) == (B (-) SetToBag({f})) (+) SetToBag({f1})

\* the suspension points at which a run waits for the host: the overview fetch,
\* a page fetch, the inter-page delay
SuspensionPoints == {"overview", "page", "delay"}

\* bookkeeping: a run waiting at a fetch or a delay when abortCurrentWork flips
\* the phase to ABORTED
AbortedFrame(f) ==
  IF f.pc \in SuspensionPoints THEN [f EXCEPT !.aborted = TRUE] ELSE f

MarkAborted(rs) ==
  [g \in {AbortedFrame(f) : f \in BagToSet(rs)} |->
     SumOver(rs, {f \in BagToSet(rs) : AbortedFrame(f) = g})]

\* bookkeeping: a run in progress when artist a is requested
SupersededFrame(f, a) ==
  IF f.artistId # a THEN [f EXCEPT !.superseded = TRUE] ELSE f

MarkSuperseded(rs, a) ==
  [g \in {SupersededFrame(f, a) : f \in BagToSet(rs)} |->
     SumOver(rs, {f \in BagToSet(rs) : SupersededFrame(f, a) = g})]

Init ==
  /\ phase = "IDLE"
  /\ activeArtistId = NoArtist
  /\ currentReleases = <<>>
  /\ discographyReleaseCache = [a \in Artists |-> NotCached]
  /\ albumCache = [id \in AlbumIds |-> NoDetail]
  /\ runs = EmptyBag
  /\ hydrations = EmptyBag
  /\ ev = Event("init", NoArtist, "none", <<>>, NoFetch, NoFlags)
  /\ started = 0

(* ---------------- fetchDiscographyForArtist: the call, up to its first await ---------------- *)
\* if (activeArtistId && activeArtistId !== artistId) abortCurrentWork();
Supersedes(ctl, artistId) ==
  ctl.activeArtistId # NoArtist /\ ctl.activeArtistId # artistId

\* if (discographyReleaseCache.has(artistId))
CacheHit(artistId) == discographyReleaseCache[artistId].has

\* mutant of CacheGet: the hit answers with the most recent result list
CacheGetCurrent(artistId) == currentReleases

\* return discographyReleaseCache.get(artistId) || [];
CacheGet(artistId) == discographyReleaseCache[artistId].list

\* if (activeArtistId === artistId && phase !== "IDLE" && phase !== "DONE")
AlreadyProcessing(ctl, artistId) ==
  ctl.activeArtistId = artistId /\ ctl.phase \notin {"IDLE", "DONE"}

\* mutant of StartPipeline: the phase is not moved to ARTISTVIEW
StartPipelineKeepsPhase(ctl, artistId) == reset([ctl EXCEPT !.activeArtistId = artistId])

\* activeArtistId = artistId; reset(); transitionPhase("ARTISTVIEW");
StartPipeline(ctl, artistId) ==
  transitionPhase(reset([ctl EXCEPT !.activeArtistId = artistId]), "ARTISTVIEW")

\* mutant of EnterArtistView: the run goes to paging without the overview fetch
EnterPagingAtOnce(artistId, p, available) == Frame(artistId, "page", JNull, FALSE)

\* fetchArtistView up to its await: the frame the new run is suspended in
\*   assertPhase(["ARTISTVIEW"]); if (phase === "ABORTED") return null;
\*   if (!Spicetify?.CosmosAsync?.get) return null; ... await get(url)
EnterArtistView(artistId, p, available) ==
  IF ~assertPhase({"ARTISTVIEW"}, p) THEN Frame(artistId, "viewDone", JNull, TRUE)
  ELSE IF p = "ABORTED" \/ ~available THEN Frame(artistId, "viewDone", JNull, FALSE)
  ELSE Frame(artistId, "overview", JNull, FALSE)

\* the fetch a frame has just issued
Issued(f) ==
  CASE f.pc = "overview" -> Fetch("overview", f.artistId, 0)
    [] f.pc = "page" -> Fetch("page", f.artistId, f.offset)
    [] OTHER -> NoFetch

Request(artistId) ==
  LET ctl0 == Ctl(phase, activeArtistId)
      sup == Supersedes(ctl0, artistId)
      ctl1 == IF sup THEN abortCurrentWork(ctl0) ELSE ctl0
      runs1 == MarkSuperseded(IF sup THEN MarkAborted(runs) ELSE runs, artistId)
  IN IF CacheHit(artistId)
     THEN /\ phase' = ctl1.phase
          /\ activeArtistId' = ctl1.activeArtistId
          /\ runs' = runs1
          /\ ev' = Wrote(Event("request", artistId, "cacheHit", CacheGet(artistId),
                               NoFetch, NoFlags), ctl1)
          /\ UNCHANGED <<currentReleases, discographyReleaseCache, albumCache, hydrations, started>>
     ELSE IF AlreadyProcessing(ctl1, artistId)
     THEN /\ phase' = ctl1.phase
          /\ activeArtistId' = ctl1.activeArtistId
          /\ runs' = runs1
          /\ ev' = Wrote(Event("request", artistId, "inProgress", currentReleases,
                               NoFetch, NoFlags), ctl1)
          /\ UNCHANGED <<currentReleases, discographyReleaseCache, albumCache, hydrations, started>>
     ELSE /\ BagCardinality(runs) < MaxRuns
          /\ started < MaxStarts
          /\ started' = started + 1
          /\ \E available \in BOOLEAN :
               LET ctl2 == StartPipeline(ctl1, artistId)
                   f == EnterArtistView(artistId, ctl2.phase, available)
               IN /\ phase' = ctl2.phase
                  /\ activeArtistId' = ctl2.activeArtistId
                  /\ runs' = runs1 (+) SetToBag({f})
                  /\ ev' = Wrote(Event("request", artistId, "started", <<>>,
                                       Issued(f), NoFlags), ctl2)
          /\ UNCHANGED <<currentReleases, discographyReleaseCache, albumCache, hydrations>>

(* ---------------- fetchArtistView: the overview fetch settles ---------------- *)
\* mutant of ViewResult: the response is returned whatever the phase
ViewResultUnchecked(data, p) == data

\* if (phase === "ABORTED") return null; return data;
ViewResult(data, p) == IF p = "ABORTED" THEN JNull ELSE data

\* const data = await get(url); ...
OverviewResolve(f, data) ==
  /\ f.pc = "overview"
  /\ runs' = Replace(runs, f, [f EXCEPT !.pc = "viewDone", !.view = ViewResult(data, phase)])
  /\ ev' = Event("overviewResolve", f.artistId, "none", <<>>, NoFetch, NoFlags)
  /\ UNCHANGED <<phase, activeArtistId, currentReleases, discographyReleaseCache, albumCache, hydrations, started>>

\* mutant of OverviewCatch: every failure of the overview fetch aborts
OverviewCatchAlwaysAborts(ctl, err) == transitionPhase(ctl, "ABORTED")

\* catch (error) { if (isRateLimitError(error)) transitionPhase("ABORTED"); return null; }
OverviewCatch(ctl, err) ==
  IF isRateLimitError(err) THEN transitionPhase(ctl, "ABORTED") ELSE ctl

OverviewReject(f, err) ==
  /\ f.pc = "overview"
  /\ LET ctl1 == OverviewCatch(Ctl(phase, activeArtistId), err)
     IN /\ runs' = Replace(runs, f, [f EXCEPT !.pc = "viewDone", !.view = JNull])
        /\ phase' = ctl1.phase
        /\ activeArtistId' = ctl1.activeArtistId
        /\ ev' = Wrote(Event("overviewReject", f.artistId,
                             IF isRateLimitError(err) THEN "rateLimited" ELSE "rejected",
                             <<>>, NoFetch, NoFlags), ctl1)
  /\ UNCHANGED <<currentReleases, discographyReleaseCache, albumCache, hydrations, started>>

(* ---------------- the run ends: return value, finally block ---------------- *)
\* mutant of TryBlocks: the detail fetch of the hydrator is outside its try block
TryBlocksWithoutDetailFetch == {"assertPhase", "sort"}

\* the statements that can throw and are enclosed by the try block of the public
\* operation they run in: assertPhase in fetchArtistView and the sort comparator
\* (try of fetchDiscographyForArtist), the detail fetch (try of hydrateAlbumDetails)
TryBlocks == {"assertPhase", "sort", "detailFetch"}

\* run f returns value; ctl is the phase machine after its finally block
EndRun(f, ctl, outcome, value, releases, cache) ==
  /\ runs' = runs (-) SetToBag({f})
  /\ phase' = ctl.phase
  /\ activeArtistId' = ctl.activeArtistId
  /\ currentReleases' = releases
  /\ discographyReleaseCache' = cache
  /\ ev' = Wrote(Event("return", f.artistId, outcome, value, NoFetch, f), ctl)
  /\ UNCHANGED <<albumCache, hydrations, started>>

\* run f throws at site: the catch block answers when the site is inside the try
\* block, the promise of the call is rejected otherwise; finally runs in both cases
Throw(f, site) ==
  LET ctl0 == Ctl(phase, activeArtistId)
  IN IF site \in TryBlocks
     THEN EndRun(f, Finally(Catch(ctl0)), "exception", currentReleases,
                 currentReleases, discographyReleaseCache)
     ELSE EndRun(f, Finally(ctl0), "raised", <<>>,
                 currentReleases, discographyReleaseCache)

(* ---------------- fetchArtistAlbumsPaged ---------------- *)
\* while (page < maxPages) { if (phase === "ABORTED") return; ... await get(url)
\* the frame at the loop head: it issues the next page fetch or leaves the function
\* (mutant: leaving the function discards what was collected)
PagedLoopDiscards(f, p) ==
  IF f.page < maxPages /\ p # "ABORTED"
  THEN [f EXCEPT !.pc = "page", !.wait = 0]
  ELSE [f EXCEPT !.pc = "pagedDone", !.wait = 0, !.releasesMap = <<>>]

PagedLoop(f, p) ==
  IF f.page < maxPages /\ p # "ABORTED"
  THEN [f EXCEPT !.pc = "page", !.wait = 0]
  ELSE [f EXCEPT !.pc = "pagedDone", !.wait = 0]

\* const items = Array.isArray(data?.items) ? data.items : [];
PageItems(data) ==
  IF Get(data, "items").t = "arr" THEN Get(data, "items").v ELSE <<>>

\* mutant of EmptyPage: a page without items does not end the loop
EmptyPageNever(items) == FALSE

\* if (items.length === 0) break;
EmptyPage(items) == Len(items) = 0

\* mutant of NextPage: the loop goes on to the next page without the delay
NextPageAtOnce(f, merged, p) ==
  PagedLoop([f EXCEPT !.releasesMap = merged,
                      !.page = f.page + 1, !.offset = f.offset + limit], p)

\* page++; offset += limit; await delay(5000);
\* the frame after a page that has a next one: it waits for the inter-page delay
NextPage(f, merged, p) ==
  [f EXCEPT !.pc = "delay", !.wait = pageDelayMs, !.releasesMap = merged,
            !.page = f.page + 1, !.offset = f.offset + limit]

\* the page fetch resolves
PageResolve(f, data) ==
  /\ f.pc = "page"
  /\ LET items == PageItems(data)
         merged == mergeItems(items, 1, f.releasesMap)
         f1 == IF EmptyPage(items) THEN [f EXCEPT !.pc = "pagedDone"]
               ELSE IF ~Truthy(Get(data, "next"))
               THEN [f EXCEPT !.pc = "pagedDone", !.releasesMap = merged]
               ELSE NextPage(f, merged, phase)
     IN /\ runs' = Replace(runs, f, f1)
        /\ ev' = Event("pageResolve", f.artistId, "none", <<>>, Issued(f1), NoFlags)
  /\ UNCHANGED <<phase, activeArtistId, currentReleases, discographyReleaseCache, albumCache, hydrations, started>>

\* the page fetch rejects: catch (error) { ...; break; }
PageReject(f, err) ==
  /\ f.pc = "page"
  /\ runs' = Replace(runs, f, [f EXCEPT !.pc = "pagedDone"])
  /\ ev' = Event("pageReject", f.artistId,
                 IF isRateLimitError(err) THEN "rateLimited" ELSE "rejected",
                 <<>>, NoFetch, NoFlags)
  /\ UNCHANGED <<phase, activeArtistId, currentReleases, discographyReleaseCache, albumCache, hydrations, started>>

\* await delay(5000) elapses: back to the loop head
DelayElapse(f) ==
  /\ f.pc = "delay"
  /\ LET f1 == PagedLoop(f, phase)
     IN /\ runs' = Replace(runs, f, f1)
        /\ ev' = Event("delay", f.artistId, "none", <<>>, Issued(f1), NoFlags)
  /\ UNCHANGED <<phase, activeArtistId, currentReleases, discographyReleaseCache, albumCache, hydrations, started>>

(* ---------------- fetchDiscographyForArtist resumes after fetchArtistView ---------------- *)
\* if (!artistViewData || phase === "ABORTED") { reset(); return []; }
ViewFailed(view, p) == ~Truthy(view) \/ p = "ABORTED"

AfterView(f) ==
  /\ f.pc = "viewDone"
  /\ LET ctl0 == Ctl(phase, activeArtistId)
     IN IF f.threw
        THEN Throw(f, "assertPhase")
        ELSE IF ViewFailed(f.view, phase)
        THEN EndRun(f, Finally(reset(ctl0)), "failed", <<>>,
                    currentReleases, discographyReleaseCache)
        ELSE \E available \in BOOLEAN :
               LET f0 == [f EXCEPT !.view = JNull,
                                   !.releasesMap = collectReleasesDeep(f.view, <<>>, 0)]
                   f1 == IF available THEN PagedLoop(f0, phase)
                         ELSE [f0 EXCEPT !.pc = "pagedDone"]
               IN /\ runs' = Replace(runs, f, f1)
                  /\ ev' = Event("afterView", f.artistId, "none", <<>>, Issued(f1), NoFlags)
                  /\ UNCHANGED <<phase, activeArtistId, currentReleases,
                                 discographyReleaseCache, albumCache, hydrations, started>>

(* ---------------- fetchDiscographyForArtist resumes after fetchArtistAlbumsPaged ---------------- *)
\* mutant of NoReleases: the empty merge is not detected
NoReleasesNever(releasesMap) == FALSE

\* if (releasesMap.size === 0)
NoReleases(releasesMap) == Len(releasesMap) = 0

\* discographyReleaseCache.set(artistId, currentReleases)
CacheSet(cache, artistId, list) == [cache EXCEPT ![artistId] = Cached(list)]

AfterPaged(f) ==
  /\ f.pc = "pagedDone"
  /\ LET ctl0 == Ctl(phase, activeArtistId)
     IN IF NoReleases(f.releasesMap)
        THEN EndRun(f, Finally(reset(transitionPhase(ctl0, "DONE"))), "empty", <<>>,
                    currentReleases, discographyReleaseCache)
        ELSE \E throws \in sortThrows(f.releasesMap) :
               IF throws
               THEN Throw(f, "sort")
               ELSE LET sorted == sortReleases(f.releasesMap)
                    IN EndRun(f, Finally(transitionPhase(ctl0, "DONE")), "success", sorted,
                              sorted, CacheSet(discographyReleaseCache, f.artistId, sorted))

(* ---------------- abortDiscographyFetch ---------------- *)
\* mutant of abortDiscographyFetch: the phase is not looked at
abortAlways(ctl) == abortCurrentWork(ctl)

\* if (phase !== "IDLE" && phase !== "DONE") abortCurrentWork();
abortDiscographyFetch(ctl) ==
  IF ctl.phase \notin {"IDLE", "DONE"} THEN abortCurrentWork(ctl) ELSE ctl

Abort ==
  /\ LET ctl == abortDiscographyFetch(Ctl(phase, activeArtistId))
     IN /\ phase' = ctl.phase
        /\ activeArtistId' = ctl.activeArtistId
        /\ ev' = Wrote(Event("abort", NoArtist, "none", <<>>, NoFetch, NoFlags), ctl)
  /\ runs' = IF phase \notin {"IDLE", "DONE"} THEN MarkAborted(runs) ELSE runs
  /\ UNCHANGED <<currentReleases, discographyReleaseCache, albumCache, hydrations, started>>

(* ---------------- hydrateAlbumDetails ---------------- *)
\* a call frame of hydrateAlbumDetails, suspended at pc:
\*   "delay"   await delay(30000)
\*   "detail"  await Spicetify.CosmosAsync.get(url)
\* wait is the time of the delay awaited, in milliseconds (0 at the fetch)
HFrame(albumId, pc) ==
  [albumId |-> albumId, pc |-> pc,
   wait |-> IF pc = "delay" THEN hydrateDelayMs ELSE 0]

DetailFetch == Fetch("detail", NoArtist, 0)

\* `spotify:album:${albumId}`
AlbumUri(albumId) == JStr(<<"spotify", "album", albumId>>)

\* the release built from the cached album object
ReleaseFromCache(albumId, cached) ==
  [id |-> S(albumId),
   name |-> Or(Get(cached, "name"), S(albumId)),
   release_date |-> Or(Get(cached, "release_date"), EmptyStr),
   album_type |-> Or(Get(cached, "album_type"), EmptyStr),
   uri |-> AlbumUri(albumId),
   imageUrl |-> Or(Get(Idx0(Get(cached, "images")), "url"), EmptyStr)]

\* mutant of ReleaseFromFetch: the id is read from the album object
ReleaseFromFetchOwnId(albumId, album) ==
  [id |-> Get(album, "id"),
   name |-> Or(Get(album, "name"), S(albumId)),
   release_date |-> Or(Get(album, "release_date"), EmptyStr),
   album_type |-> Or(Get(album, "album_type"), EmptyStr),
   uri |-> Or(Get(album, "uri"), AlbumUri(albumId)),
   imageUrl |-> Or(Get(Idx0(Get(album, "images")), "url"), EmptyStr)]

\* the release built from the fetched album object
ReleaseFromFetch(albumId, album) ==
  [id |-> S(albumId),
   name |-> Or(Get(album, "name"), S(albumId)),
   release_date |-> Or(Get(album, "release_date"), EmptyStr),
   album_type |-> Or(Get(album, "album_type"), EmptyStr),
   uri |-> Or(Get(album, "uri"), AlbumUri(albumId)),
   imageUrl |-> Or(Get(Idx0(Get(album, "images")), "url"), EmptyStr)]

\* mutant of HydrateCacheHit: the cache is not consulted
HydrateCacheMiss(albumId) == FALSE

\* if (albumCache.has(albumId))
HydrateCacheHit(albumId) == albumCache[albumId].has

\* the call, up to its first await
Hydrate(albumId) ==
  /\ IF HydrateCacheHit(albumId)
     THEN /\ ev' = HydrateEvent("hydrate", albumId, "cacheHit",
                                ReleaseFromCache(albumId, albumCache[albumId].detail),
                                NoFetch)
          /\ UNCHANGED hydrations
     ELSE /\ BagCardinality(hydrations) < MaxHydrations
          /\ hydrations' = hydrations (+) SetToBag({HFrame(albumId, "delay")})
          /\ ev' = HydrateEvent("hydrate", albumId, "waiting", JNull, NoFetch)
  /\ UNCHANGED <<phase, activeArtistId, currentReleases, discographyReleaseCache,
                 albumCache, runs, started>>

\* await delay(30000) elapses; if (!Spicetify?.CosmosAsync?.get) return null;
\* otherwise the detail fetch is issued
HydrateDelayElapse(h) ==
  /\ h.pc = "delay"
  /\ \E available \in BOOLEAN :
       IF available
       THEN /\ hydrations' = Replace(hydrations, h, HFrame(h.albumId, "detail"))
            /\ ev' = HydrateEvent("hydrateDelay", h.albumId, "none", JNull, DetailFetch)
       ELSE /\ hydrations' = hydrations (-) SetToBag({h})
            /\ ev' = HydrateEvent("hydrateReturn", h.albumId, "unavailable", JNull, NoFetch)
  /\ UNCHANGED <<phase, activeArtistId, currentReleases, discographyReleaseCache,
                 albumCache, runs, started>>

\* mutant of HydrateStore: whatever the fetch resolved with is stored
HydrateStoreAlways(cache, albumId, album) == [cache EXCEPT ![albumId] = Detail(album)]

\* if (album) { albumCache.set(albumId, album); ... }
HydrateStore(cache, albumId, album) ==
  IF Truthy(album) THEN [cache EXCEPT ![albumId] = Detail(album)] ELSE cache

\* the detail fetch resolves:
\* if (album) { albumCache.set(albumId, album); return {...}; } return null;
HydrateResolve(h, album) ==
  /\ h.pc = "detail"
  /\ hydrations' = hydrations (-) SetToBag({h})
  /\ albumCache' = HydrateStore(albumCache, h.albumId, album)
  /\ ev' = IF Truthy(album)
           THEN HydrateEvent("hydrateReturn", h.albumId, "success",
                             ReleaseFromFetch(h.albumId, album), NoFetch)
           ELSE HydrateEvent("hydrateReturn", h.albumId, "noObject", JNull, NoFetch)
  /\ UNCHANGED <<phase, activeArtistId, currentReleases, discographyReleaseCache,
                 runs, started>>

\* mutant of HydrateCatch: a rate-limited detail fetch aborts the pipeline
HydrateCatchAborts(ctl, err) ==
  IF isRateLimitError(err) THEN transitionPhase(ctl, "ABORTED") ELSE ctl

\* catch (error) { console.error(...); if (isRateLimitError(error)) console.warn(...); }
HydrateCatch(ctl, err) == ctl

\* the detail fetch rejects: the catch block logs and the call returns null
HydrateReject(h, err) ==
  /\ h.pc = "detail"
  /\ hydrations' = hydrations (-) SetToBag({h})
  /\ IF "detailFetch" \in TryBlocks
     THEN LET ctl == HydrateCatch(Ctl(phase, activeArtistId), err)
          IN /\ phase' = ctl.phase
             /\ activeArtistId' = ctl.activeArtistId
             /\ ev' = Wrote(HydrateEvent("hydrateReturn", h.albumId,
                                         IF isRateLimitError(err) THEN "rateLimited"
                                         ELSE "rejected",
                                         JNull, NoFetch), ctl)
     ELSE /\ UNCHANGED <<phase, activeArtistId>>
          /\ ev' = HydrateEvent("hydrateReturn", h.albumId, "raised", JNull, NoFetch)
  /\ UNCHANGED <<currentReleases, discographyReleaseCache, albumCache, runs, started>>

(* ---------------- getDiscographyStatus ---------------- *)
\* mutant of getDiscographyStatus: the count is not read from currentReleases
getDiscographyStatusNoCount(p, a, releases) ==
  [phase |-> p, artistId |-> a, releasesCount |-> 0]

\* return { phase, artistId: activeArtistId, releasesCount: currentReleases.length };
getDiscographyStatus(p, a, releases) ==
  [phase |-> p, artistId |-> a, releasesCount |-> Len(releases)]

GetStatus ==
  /\ ev' = Event("status", NoArtist, "none",
                 <<getDiscographyStatus(phase, activeArtistId, currentReleases)>>,
                 NoFetch, NoFlags)
  /\ UNCHANGED <<phase, activeArtistId, currentReleases, discographyReleaseCache,
                 albumCache, runs, hydrations, started>>

(* ---------------- the specification ---------------- *)
Frames == BagToSet(runs)

Next ==
  \/ \E a \in Artists : Request(a)
  \/ \E f \in Frames : \E data \in OverviewResponses(f.artistId) : OverviewResolve(f, data)
  \/ \E f \in Frames : \E err \in Rejections : OverviewReject(f, err)
  \/ \E f \in Frames : AfterView(f)
  \/ \E f \in Frames : \E data \in PageResponses(f.artistId) : PageResolve(f, data)
  \/ \E f \in Frames : \E err \in Rejections : PageReject(f, err)
  \/ \E f \in Frames : DelayElapse(f)
  \/ \E f \in Frames : AfterPaged(f)
  \/ Abort

Spec == Init /\ [][Next]_vars

\* the steps the host and the event loop owe a suspended run: each fetch settles
\* (resolves or rejects), each delay elapses, each continuation of an await runs
Settle ==
  \/ \E f \in Frames : \E data \in OverviewResponses(f.artistId) : OverviewResolve(f, data)
  \/ \E f \in Frames : \E err \in Rejections : OverviewReject(f, err)
  \/ \E f \in Frames : AfterView(f)
  \/ \E f \in Frames : \E data \in PageResponses(f.artistId) : PageResolve(f, data)
  \/ \E f \in Frames : \E err \in Rejections : PageReject(f, err)
  \/ \E f \in Frames : DelayElapse(f)
  \/ \E f \in Frames : AfterPaged(f)

\* a run is suspended: some Settle step can be taken (every pc of a frame has one),
\* so this is ENABLED <<Settle>>_vars
Suspended == runs # EmptyBag

\* weak fairness of Settle, WF_vars(Settle), with its enabling condition written
\* as the state predicate Suspended
SettleFairness == []<>(~Suspended) \/ []<><<Settle>>_vars

\* the controller under a host whose fetches settle and whose delays elapse
SpecFair == Init /\ [][Next]_vars /\ SettleFairness

(* ---------------- the hydrator beside a run of the pipeline ---------------- *)
HFrames == BagToSet(hydrations)

\* the controller one step after construction: requestDiscography(a) has started
\* a run, which waits for its overview fetch
Requested(a) ==
  /\ phase = "ARTISTVIEW"
  /\ activeArtistId = NoArtist
  /\ currentReleases = <<>>
  /\ discographyReleaseCache = [b \in Artists |-> NotCached]
  /\ albumCache = [id \in AlbumIds |-> NoDetail]
  /\ runs = SetToBag({Frame(a, "overview", JNull, FALSE)})
  /\ hydrations = EmptyBag
  /\ ev = Event("request", a, "started", <<>>, Fetch("overview", a, 0), NoFlags)
  /\ started = 1

InitHydrate == Init \/ \E a \in Artists : Requested(a)

NextHydrate ==
  \/ \E id \in AlbumIds : Hydrate(id)
  \/ \E h \in HFrames : HydrateDelayElapse(h)
  \/ \E h \in HFrames : \E album \in DetailResponses(h.albumId) : HydrateResolve(h, album)
  \/ \E h \in HFrames : \E err \in Rejections : HydrateReject(h, err)
  \/ \E f \in Frames : \E data \in OverviewResponses(f.artistId) : OverviewResolve(f, data)
  \/ \E f \in Frames : \E err \in Rejections : OverviewReject(f, err)
  \/ \E f \in Frames : AfterView(f)
  \/ \E f \in Frames : \E data \in PageResponses(f.artistId) : PageResolve(f, data)
  \/ \E f \in Frames : \E err \in Rejections : PageReject(f, err)
  \/ \E f \in Frames : DelayElapse(f)
  \/ \E f \in Frames : AfterPaged(f)
  \/ Abort
  \/ GetStatus

SpecHydrate == InitHydrate /\ [][NextHydrate]_vars

(* ---------------- the sort of a merged map ---------------- *)
\* ids and release dates of the releases a merged map may hold
SortIds == {"r1", "r2", "r3", "r4"}
SortDates == {EmptyStr, S("2020-01-01"), S("2022-06-15"), JNum(2020)}

\* the merged maps: up to MaxSortLen releases with pairwise different ids, in
\* every insertion order
MergedMaps ==
  UNION {{[i \in 1..n |-> normalizeReleaseItem(Item(m[i][1], "N", "album", m[i][2]))] :
            m \in {x \in [1..n -> SortIds \X SortDates] :
                     \A i, j \in 1..n : i # j => x[i][1] # x[j][1]}} :
         n \in 1..MaxSortLen}

\* a run for A has come back from fetchArtistAlbumsPaged with the merged map
InitSort ==
  /\ phase = "ARTISTVIEW"
  /\ activeArtistId = NoArtist
  /\ currentReleases = <<>>
  /\ discographyReleaseCache = [b \in Artists |-> NotCached]
  /\ albumCache = [id \in AlbumIds |-> NoDetail]
  /\ \E merged \in MergedMaps :
       runs = SetToBag({[Frame("A", "pagedDone", JNull, FALSE)
                           EXCEPT !.releasesMap = merged]})
  /\ hydrations = EmptyBag
  /\ ev = Event("pageReject", "A", "rejected", <<>>, NoFetch, NoFlags)
  /\ started = 1

NextSort == \E f \in Frames : AfterPaged(f)

SpecSort == InitSort /\ [][NextSort]_vars

(* ---------------- the normalizer applied to one item ---------------- *)
\* the fields an item may carry, each group as a sequence of <<key, value>> pairs
IdFields == { <<>>, << <<"id", S("x")>> >>, << <<"id", EmptyStr>> >> }

UriFields ==
  { <<>>,
    << <<"uri", JStr(<<"spotify", "album", "u">>)>> >>,
    << <<"uri", JStr(<<"spotify", "track", "u">>)>> >>,
    << <<"uri", JStr(<<"spotify", "album", "">>)>> >>,
    << <<"uri", S("albums")>> >>,
    << <<"link", JObj(<< <<"uri", JStr(<<"spotify", "album", "l">>)>> >>)>> >>,
    << <<"uri", JNum(7)>> >> }

NameFields ==
  { <<>>,
    << <<"name", S("Foo")>> >>,
    << <<"name", EmptyStr>>, <<"title", S("T")>> >>,
    << <<"album", JObj(<< <<"name", S("N")>> >>)>> >>,
    << <<"headerData", JObj(<< <<"title", S("H")>> >>)>> >> }

TypeFields ==
  { <<>>,
    << <<"type", S("album")>> >>,
    << <<"album_type", S("ALBUM")>> >>,
    << <<"type", S("track")>> >>,
    << <<"release_type", S("EP")>> >>,
    << <<"album_type", S("track")>>, <<"type", S("album")>> >>,
    << <<"type", JNum(7)>> >> }

\* the values normalizeReleaseItem is applied to
NormalizeInputs ==
  {JObj(i \o u \o n \o t) :
     i \in IdFields, u \in UriFields, n \in NameFields, t \in TypeFields}
  \cup {JNull, EmptyStr, S("album"), JNum(0), JNum(7), JArr(<<>>)}

\* the controller after construction, about to apply normalizeReleaseItem to an item
InitNormalize ==
  /\ phase = "IDLE"
  /\ activeArtistId = NoArtist
  /\ currentReleases = <<>>
  /\ discographyReleaseCache = [a \in Artists |-> NotCached]
  /\ albumCache = [id \in AlbumIds |-> NoDetail]
  /\ runs = EmptyBag
  /\ hydrations = EmptyBag
  /\ \E item \in NormalizeInputs :
       ev = Event("item", NoArtist, "none", item, NoFetch, NoFlags)
  /\ started = 0

\* const release = normalizeReleaseItem(item)
Normalize ==
  /\ ev.op = "item"
  /\ ev' = Event("normalize", NoArtist, "none", normalizeReleaseItem(ev.value),
                 NoFetch, NoFlags)
  /\ UNCHANGED <<phase, activeArtistId, currentReleases, discographyReleaseCache,
                 albumCache, runs, hydrations, started>>

SpecNormalize == InitNormalize /\ [][Normalize]_vars

(* ---------------- the deep collection applied to one value ---------------- *)
\* { a: x } and [x]
WrapObj(x) == JObj(<< <<"a", x>> >>)
WrapArr(x) == JArr(<<x>>)

RECURSIVE Nest(_, _, _)
\* leaf under n levels of objects ("obj"), of arrays ("arr") or of both in turn ("mix")
Nest(kind, n, leaf) ==
  IF n = 0 THEN leaf
  ELSE IF kind = "arr" \/ (kind = "mix" /\ n % 2 = 0)
       THEN WrapArr(Nest(kind, n - 1, leaf))
       ELSE WrapObj(Nest(kind, n - 1, leaf))

\* the id of the release found at level d of a tower
LevelToks == <<"d0", "d1", "d2", "d3", "d4", "d5", "d6", "d7", "d8", "d9",
               "d10", "d11", "d12", "d13", "d14">>

RECURSIVE Tower(_, _, _)
\* a release at every level from d to n: each holds the next one, directly
\* (step 1) or inside an array (step 2)
Tower(n, d, step) ==
  JObj(<< <<"id", S(LevelToks[d + 1])>>, <<"name", S("X")>>, <<"type", S("album")>> >>
       \o IF d + step > n THEN <<>>
          ELSE IF step = 1 THEN << <<"child", Tower(n, d + 1, step)>> >>
          ELSE << <<"items", JArr(<<Tower(n, d + 2, step)>>)>> >>)

RECURSIVE SelfRef(_)
\* the cyclic object o = { id, name, type, self: o }, as far as n levels of
\* property reads reach into it
SelfRef(n) ==
  JObj(<< <<"id", S("c")>>, <<"name", S("C")>>, <<"type", S("album")>> >>
       \o IF n = 0 THEN <<>> ELSE << <<"self", SelfRef(n - 1)>> >>)

\* the values collectReleasesDeep is applied to
CollectInputs ==
  {Nest(kind, n, leaf) : kind \in {"obj", "arr", "mix"}, n \in 0..MaxNest,
                         leaf \in {A1, Malformed}}
  \cup {Tower(n, 0, step) : n \in 0..MaxNest, step \in {1, 2}}
  \cup {SelfRef(MaxNest), JArr(<<A1, WrapObj(A1), A2>>), JNull, S("album")}

\* the controller after construction, about to apply collectReleasesDeep to a value
InitCollect ==
  /\ phase = "IDLE"
  /\ activeArtistId = NoArtist
  /\ currentReleases = <<>>
  /\ discographyReleaseCache = [a \in Artists |-> NotCached]
  /\ albumCache = [id \in AlbumIds |-> NoDetail]
  /\ runs = EmptyBag
  /\ hydrations = EmptyBag
  /\ \E value \in CollectInputs :
       ev = Event("value", NoArtist, "none", [value |-> value, map |-> <<>>],
                  NoFetch, NoFlags)
  /\ started = 0

\* const releasesMap = new Map(); collectReleasesDeep(value, releasesMap);
Collect ==
  /\ ev.op = "value"
  /\ ev' = Event("collect", NoArtist, "none",
                 [ev.value EXCEPT !.map = collectReleasesDeep(ev.value.value, <<>>, 0)],
                 NoFetch, NoFlags)
  /\ UNCHANGED <<phase, activeArtistId, currentReleases, discographyReleaseCache,
                 albumCache, runs, hydrations, started>>

SpecCollect == InitCollect /\ [][Collect]_vars

(* ---------------- the merge of an overview and its pages ---------------- *)
\* ids and names of the items served: the same id comes with different names
MergeIds == {"r1", "r2"}
MergeNames == {"N", "M"}
MergeTags == MergeIds \X MergeNames

\* the item with id t[1] and name t[2]
MergeItem(t) == Item(t[1], t[2], "album", S("2020-01-01"))

\* the item of t with the item of u among its descendants
NestedItem(t, u) ==
  JObj(MergeItem(t).v \o << <<"more", JArr(<<MergeItem(u)>>)>> >>)

\* an overview holding the given items
ViewOf(items) == JObj(<< <<"releases", JArr(items)>> >>)

\* overview responses, each with the <<id, name>> of its items in pre-order
MergeViews ==
  {[view |-> ViewOf(<<>>), order |-> <<>>]}
  \cup {[view |-> ViewOf(<<MergeItem(t)>>), order |-> <<t>>] : t \in MergeTags}
  \cup {[view |-> ViewOf(<<MergeItem(t), MergeItem(u)>>), order |-> <<t, u>>] :
          t \in MergeTags, u \in MergeTags}
  \cup {[view |-> ViewOf(<<NestedItem(t, u)>>), order |-> <<t, u>>] :
          t \in MergeTags, u \in MergeTags}

\* the pages fetched after it, each list with the <<id, name>> of its items in
\* page order
MergePages ==
  {[pages |-> <<>>, order |-> <<>>]}
  \cup {[pages |-> <<Page(<<MergeItem(t)>>, JNull)>>, order |-> <<t>>] : t \in MergeTags}
  \cup {[pages |-> <<Page(<<MergeItem(t), MergeItem(u)>>, JNull)>>, order |-> <<t, u>>] :
          t \in MergeTags, u \in MergeTags}
  \cup {[pages |-> <<Page(<<MergeItem(t)>>, S("next-url")), Page(<<MergeItem(u)>>, JNull)>>,
         order |-> <<t, u>>] : t \in MergeTags, u \in MergeTags}

MergeInputs ==
  {[view |-> v.view, pages |-> p.pages, order |-> v.order \o p.order, map |-> <<>>] :
     v \in MergeViews, p \in MergePages}

\* the controller after construction, about to merge an overview and its pages
InitMerge ==
  /\ phase = "IDLE"
  /\ activeArtistId = NoArtist
  /\ currentReleases = <<>>
  /\ discographyReleaseCache = [a \in Artists |-> NotCached]
  /\ albumCache = [id \in AlbumIds |-> NoDetail]
  /\ runs = EmptyBag
  /\ hydrations = EmptyBag
  /\ \E input \in MergeInputs :
       ev = Event("pages", NoArtist, "none", input, NoFetch, NoFlags)
  /\ started = 0

RECURSIVE mergePages(_, _, _)
\* the bodies of the paging loop, one page after the other, from page i on
mergePages(pages, i, releasesMap) ==
  IF i > Len(pages) THEN releasesMap
  ELSE mergePages(pages, i + 1, mergeItems(PageItems(pages[i]), 1, releasesMap))

\* collectReleasesDeep(artistViewData, releasesMap); then the items of each page
Merge ==
  /\ ev.op = "pages"
  /\ ev' = Event("merge", NoArtist, "none",
                 [ev.value EXCEPT !.map = mergePages(ev.value.pages, 1,
                                            collectReleasesDeep(ev.value.view, <<>>, 0))],
                 NoFetch, NoFlags)
  /\ UNCHANGED <<phase, activeArtistId, currentReleases, discographyReleaseCache,
                 albumCache, runs, hydrations, started>>

SpecMerge == InitMerge /\ [][Merge]_vars

(* ---------------- the phase-bound operations, called on their own ---------------- *)
\* const cooldownMs = 10000; ... await delay(100);
cooldownMs == 10000
cooldownTickMs == 100

\* batchSize: number = 5, delayMs: number = 900
batchSize == 5
batchDelayMs == 900

\* what the albums endpoint may resolve with for a chunk of ids: no object, the
\* albums of the chunk, or a list whose one entry has no id
BatchResponses(chunk) ==
  { JNull,
    JObj(<< <<"albums",
              JArr([k \in 1..Len(chunk) |->
                      JObj(<< <<"id", S(chunk[k])>>, <<"name", S("X")>> >>)])>> >>),
    JObj(<< <<"albums", JArr(<< JObj(<< <<"name", S("X")>> >>) >>)>> >>) }

\* a call frame of cooldown or hydrateAlbumsBatch, suspended at pc:
\*   "tick"   await delay(100) in cooldown; elapsed is Date.now() - startTime
\*   "get"    await Spicetify.CosmosAsync.get(url) in hydrateAlbumsBatch
\*   "delay"  await delay(delayMs) in hydrateAlbumsBatch
\* missing, i, batchSize, delayMs are the locals of hydrateAlbumsBatch;
\* wait is the time of the delay awaited, in milliseconds (0 at the fetch)
PFrame(op, pc, wait) ==
  [op |-> op, pc |-> pc, missing |-> <<>>, i |-> 0, batchSize |-> 0, delayMs |-> 0,
   elapsed |-> 0, wait |-> wait]

\* the controller in any phase, with nothing in flight; A1 is hydrated or not
InitGuard ==
  /\ phase \in Phases
  /\ activeArtistId = IF phase \in {"IDLE", "ABORTED"} THEN NoArtist ELSE "A"
  /\ currentReleases = <<>>
  /\ discographyReleaseCache = [a \in Artists |-> NotCached]
  /\ albumCache \in { [id \in AlbumIds |-> NoDetail],
                      [id \in AlbumIds |-> IF id = "A1" THEN Detail(FullDetail(id))
                                           ELSE NoDetail] }
  /\ runs = EmptyBag
  /\ hydrations = EmptyBag
  /\ ev = Event("init", NoArtist, "none", <<>>, NoFetch, NoFlags)
  /\ started = 0

\* nothing is in flight: the operations are called one at a time
Quiet == runs = EmptyBag /\ hydrations = EmptyBag

\* the call ends without having awaited anything: it returns, or it throws at
\* assertPhase and its promise is rejected with the error (outcome "invalidPhase")
EndsAtOnce(op, a, outcome) ==
  /\ ev' = Event(op, a, outcome, <<>>, NoFetch, NoFlags)
  /\ UNCHANGED <<phase, activeArtistId, currentReleases, discographyReleaseCache,
                 albumCache, runs, hydrations, started>>

\* fetchArtistView(artistId), up to its await
CallFetchArtistView(artistId) ==
  /\ Quiet
  /\ \E available \in BOOLEAN :
       LET f == EnterArtistView(artistId, phase, available)
       IN IF f.threw THEN EndsAtOnce("fetchArtistView", artistId, "invalidPhase")
          ELSE IF f.pc = "viewDone" THEN EndsAtOnce("fetchArtistView", artistId, "null")
          ELSE /\ runs' = SetToBag({f})
               /\ ev' = Event("fetchArtistView", artistId, "waiting", <<>>, Issued(f), NoFlags)
               /\ UNCHANGED <<phase, activeArtistId, currentReleases,
                              discographyReleaseCache, albumCache, hydrations, started>>

\* fetchArtistView returns what OverviewResolve or OverviewReject left in the frame
ViewReturn(f) ==
  /\ f.pc = "viewDone"
  /\ runs' = runs (-) SetToBag({f})
  /\ ev' = Event("viewReturn", f.artistId, IF Truthy(f.view) THEN "data" ELSE "null",
                 IF Truthy(f.view) THEN <<f.view>> ELSE <<>>, NoFetch, NoFlags)
  /\ UNCHANGED <<phase, activeArtistId, currentReleases, discographyReleaseCache,
                 albumCache, hydrations, started>>

\* cooldown(), up to its first await: assertPhase(["COOLDOWN"]); the loop is
\* entered (0 < cooldownMs, and the phase is not ABORTED); await delay(100)
CallCooldown ==
  /\ Quiet
  /\ IF ~assertPhase({"COOLDOWN"}, phase) THEN EndsAtOnce("cooldown", NoArtist, "invalidPhase")
     ELSE /\ hydrations' = SetToBag({PFrame("cooldown", "tick", cooldownTickMs)})
          /\ ev' = Event("cooldown", NoArtist, "waiting", <<>>, NoFetch, NoFlags)
          /\ UNCHANGED <<phase, activeArtistId, currentReleases,
                         discographyReleaseCache, albumCache, runs, started>>

\* await delay(100) elapses, back to the loop head:
\* while (Date.now() - startTime < cooldownMs) { if (phase === "ABORTED") return; ...
CooldownTick(g) ==
  /\ g.op = "cooldown"
  /\ LET elapsed == g.elapsed + g.wait
     IN IF elapsed < cooldownMs /\ phase # "ABORTED"
        THEN /\ hydrations' = Replace(hydrations, g, [g EXCEPT !.elapsed = elapsed])
             /\ ev' = Event("cooldownTick", NoArtist, "waiting", <<>>, NoFetch, NoFlags)
        ELSE /\ hydrations' = hydrations (-) SetToBag({g})
             /\ ev' = Event("cooldownReturn", NoArtist,
                            IF elapsed < cooldownMs THEN "interrupted" ELSE "complete",
                            <<>>, NoFetch, NoFlags)
  /\ UNCHANGED <<phase, activeArtistId, currentReleases, discographyReleaseCache,
                 albumCache, runs, started>>

RECURSIVE filterMissing(_, _, _)
\* albumIds.filter((id) => !albumCache.has(id))
filterMissing(albumIds, k, cache) ==
  IF k > Len(albumIds) THEN <<>>
  ELSE (IF cache[albumIds[k]].has THEN <<>> ELSE <<albumIds[k]>>)
         \o filterMissing(albumIds, k + 1, cache)

\* missing.slice(i, i + batchSize)
Chunk(g) ==
  SubSeq(g.missing, g.i + 1,
         IF g.i + g.batchSize < Len(g.missing) THEN g.i + g.batchSize ELSE Len(g.missing))

\* the head of the batch loop, with the frame g about to run it:
\*   for (...; i < missing.length; ...) { if (phase === "ABORTED") return;
\*     ... await Spicetify.CosmosAsync.get(url)
\* the get is inside the try block: without the capability it throws, and the
\* catch block returns
BatchLoop(op, g, had) ==
  IF g.i >= Len(g.missing)
  THEN /\ hydrations' = hydrations (-) had
       /\ ev' = Event(op, NoArtist, "complete", <<>>, NoFetch, NoFlags)
  ELSE IF phase = "ABORTED"
  THEN /\ hydrations' = hydrations (-) had
       /\ ev' = Event(op, NoArtist, "stopped", <<>>, NoFetch, NoFlags)
  ELSE \E available \in BOOLEAN :
         IF available
         THEN /\ hydrations' = (hydrations (-) had) (+) SetToBag({g})
              /\ ev' = Event(op, NoArtist, "waiting", <<>>, Fetch("batch", NoArtist, 0), NoFlags)
         ELSE /\ hydrations' = hydrations (-) had
              /\ ev' = Event(op, NoArtist, "rejected", <<>>, NoFetch, NoFlags)

\* hydrateAlbumsBatch(albumIds, size, delayMs), up to its first await
CallHydrateAlbumsBatch(albumIds, size) ==
  /\ Quiet
  /\ IF ~assertPhase({"HYDRATING"}, phase) THEN EndsAtOnce("hydrateAlbumsBatch", NoArtist, "invalidPhase")
     ELSE LET missing == filterMissing(albumIds, 1, albumCache)
          IN IF Len(missing) = 0
             THEN EndsAtOnce("hydrateAlbumsBatch", NoArtist, "allCached")
             ELSE /\ BatchLoop("hydrateAlbumsBatch",
                               [PFrame("hydrateAlbumsBatch", "get", 0)
                                  EXCEPT !.missing = missing, !.batchSize = size,
                                         !.delayMs = batchDelayMs],
                               EmptyBag)
                  /\ UNCHANGED <<phase, activeArtistId, currentReleases,
                                 discographyReleaseCache, albumCache, runs, started>>

RECURSIVE storeAlbums(_, _, _)
\* res?.albums?.forEach((album) => { if (album?.id) albumCache.set(album.id, album); })
storeAlbums(albums, k, cache) ==
  IF albums.t # "arr" \/ k > Len(albums.v) THEN cache
  ELSE LET album == albums.v[k]
       IN storeAlbums(albums, k + 1,
                      IF Truthy(Get(album, "id"))
                      THEN [cache EXCEPT ![Get(album, "id").v[1]] = Detail(album)]
                      ELSE cache)

\* the batch fetch resolves: the albums are stored; await delay(delayMs)
BatchResolve(g, res) ==
  /\ g.op = "hydrateAlbumsBatch" /\ g.pc = "get"
  /\ albumCache' = storeAlbums(Get(res, "albums"), 1, albumCache)
  /\ hydrations' = Replace(hydrations, g, [g EXCEPT !.pc = "delay", !.wait = g.delayMs])
  /\ ev' = Event("batchResolve", NoArtist, "none", <<>>, NoFetch, NoFlags)
  /\ UNCHANGED <<phase, activeArtistId, currentReleases, discographyReleaseCache,
                 runs, started>>

\* catch (error) { if (isRateLimitError(error)) { transitionPhase("ABORTED"); return; }
\*                 return; }
BatchCatch(ctl, err) ==
  IF isRateLimitError(err) THEN transitionPhase(ctl, "ABORTED") ELSE ctl

BatchReject(g, err) ==
  /\ g.op = "hydrateAlbumsBatch" /\ g.pc = "get"
  /\ LET ctl1 == BatchCatch(Ctl(phase, activeArtistId), err)
     IN /\ phase' = ctl1.phase
        /\ activeArtistId' = ctl1.activeArtistId
        /\ ev' = Wrote(Event("batchReturn", NoArtist,
                             IF isRateLimitError(err) THEN "rateLimited" ELSE "rejected",
                             <<>>, NoFetch, NoFlags), ctl1)
  /\ hydrations' = hydrations (-) SetToBag({g})
  /\ UNCHANGED <<currentReleases, discographyReleaseCache, albumCache, runs, started>>

\* await delay(delayMs) elapses: i += batchSize, back to the loop head
BatchDelayElapse(g) ==
  /\ g.op = "hydrateAlbumsBatch" /\ g.pc = "delay"
  /\ BatchLoop("batchNext",
               [g EXCEPT !.pc = "get", !.wait = 0, !.i = g.i + g.batchSize],
               SetToBag({g}))
  /\ UNCHANGED <<phase, activeArtistId, currentReleases, discographyReleaseCache,
                 albumCache, runs, started>>

NextGuard ==
  \/ \E a \in Artists : CallFetchArtistView(a)
  \/ \E f \in Frames :
       \/ \E data \in OverviewResponses(f.artistId) : OverviewResolve(f, data)
       \/ \E err \in Rejections : OverviewReject(f, err)
       \/ ViewReturn(f)
  \/ CallCooldown
  \/ \E albumIds \in { <<>>, <<"A1">>, <<"A1", "X7">> }, size \in {1, batchSize} :
       CallHydrateAlbumsBatch(albumIds, size)
  \/ \E g \in HFrames :
       \/ CooldownTick(g)
       \/ \E res \in BatchResponses(Chunk(g)) : BatchResolve(g, res)
       \/ \E err \in Rejections : BatchReject(g, err)
       \/ BatchDelayElapse(g)
  \/ Abort

SpecGuard == InitGuard /\ [][NextGuard]_vars

(* ---------------- properties ---------------- *)
\* the runs of artist a that are waiting at a fetch or a delay
Waiting(a) == {f \in Frames : f.artistId = a /\ f.pc \in SuspensionPoints}

\* the ids of a release list are ids the host serves for artist a
FromArtist(list, a) ==
  \A i \in 1..Len(list) : list[i].id.t = "str" /\ list[i].id.v[1] \in IdsOf(a)

\* C1: a second requestDiscography(A), made while A is not cached and a run for A
\* is waiting at its overview fetch, a page fetch or the inter-page delay, starts no
\* pipeline, issues no fetch and returns currentReleases.
C1_SecondRequestStartsNoPipeline ==
  [][\A a \in Artists :
       (/\ Waiting(a) # {}
        /\ ~discographyReleaseCache[a].has
        /\ ev'.op = "request" /\ ev'.artistId = a)
       => (/\ ev'.outcome = "inProgress"
           /\ ev'.fetch = NoFetch
           /\ ev'.value = currentReleases
           /\ BagCardinality(runs') = BagCardinality(runs))]_vars

\* C2: a run for A that was in progress when requestDiscography(B), B # A, was
\* called never writes the entry of A into discographyReleaseCache.
C2_SupersededRunNeverCaches ==
  ~(ev.op = "return" /\ ev.superseded /\ ev.outcome = "success")

\* C3: a requestDiscography(A) made when discographyReleaseCache has A returns
\* exactly the list stored for A, issues no fetch and starts no run.
C3_CacheShortCircuit ==
  [][\A a \in Artists :
       (discographyReleaseCache[a].has /\ ev'.op = "request" /\ ev'.artistId = a)
       => (/\ ev'.value = discographyReleaseCache[a].list
           /\ ev'.fetch = NoFetch
           /\ started' = started
           /\ BagCardinality(runs') = BagCardinality(runs))]_vars

\* a cache hit has answered with a stored list that is not the latest result list
C3_Witness ==
  /\ ev.op = "request" /\ ev.outcome = "cacheHit"
  /\ ev.value # <<>>
  /\ ev.value # currentReleases

C5_ActiveArtistIsRunOwner ==
  \A f \in Frames :
     (f.pc \in SuspensionPoints /\ ~f.aborted) => activeArtistId = f.artistId

\* C6: no two runs wait at a fetch or a delay, un-aborted, at the same time.
C6_SingleActiveRun ==
  SumOver(runs, {f \in Frames : f.pc \in SuspensionPoints /\ ~f.aborted}) <= 1

\* C7: a run that waited at a fetch or a delay when abort flipped the phase to
\* ABORTED does not write discographyReleaseCache and returns the empty list.
C7_AbortedRunNeverCachesOrReturns ==
  (ev.op = "return" /\ ev.aborted) => (ev.outcome # "success" /\ ev.value = <<>>)

\* C8: a run that ends without success (capability unavailable, overview failed or
\* rate-limited, no release found, exception in the pipeline) returns the empty
\* list and leaves discographyReleaseCache unchanged.
C8_FailureReturnsEmpty ==
  [][(ev'.op = "return" /\ ev'.outcome \in FailureOutcomes)
       => (ev'.value = <<>> /\ discographyReleaseCache' = discographyReleaseCache)]_vars

C10_CacheEntryStable ==
  [][\A a \in Artists :
       discographyReleaseCache[a].has
       => discographyReleaseCache'[a] = discographyReleaseCache[a]]_vars

\* C11: an abortDiscographyFetch() made while some run of the pipeline has started
\* and not yet returned leaves phase = ABORTED.
C11_AbortDuringRunSetsAborted ==
  [][(ev'.op = "abort" /\ runs # EmptyBag) => phase' = "ABORTED"]_vars

\* C12: abortDiscographyFetch() is idempotent: it never changes currentReleases or
\* a cache, a second call right after a first changes neither phase nor
\* activeArtistId, and a call made in phase IDLE or DONE changes nothing.
C12_AbortIdempotent ==
  [][ev'.op = "abort"
       => (/\ UNCHANGED <<currentReleases, discographyReleaseCache, albumCache>>
           /\ (ev.op = "abort" => UNCHANGED <<phase, activeArtistId>>)
           /\ (phase \in {"IDLE", "DONE"}
                 => UNCHANGED <<phase, activeArtistId, runs>>))]_vars

\* an abort has flipped the phase under a waiting run
C12_Witness ==
  /\ ev.op = "abort"
  /\ phase = "ABORTED"
  /\ \E f \in Frames : f.aborted

\* C14: a requestDiscography(A) made when A is not cached and no run is in
\* progress (in particular after a run for A ended without caching) starts a new
\* pipeline: phase goes from IDLE to ARTISTVIEW and an overview fetch for A is issued.
C14_RetryStartsPipeline ==
  [][\A a \in Artists :
       (/\ runs = EmptyBag
        /\ ~discographyReleaseCache[a].has
        /\ ev'.op = "request" /\ ev'.artistId = a)
       => (/\ phase = "IDLE" /\ phase' = "ARTISTVIEW"
           /\ ev'.outcome = "started"
           /\ ev'.fetch = Fetch("overview", a, 0))]_vars

\* C14, amended: the same request starts a new pipeline, phase goes from IDLE to
\* ARTISTVIEW, and the overview fetch for A is issued unless the host offers no
\* fetch capability, in which case the new run issues no fetch and is about to
\* return without a payload.
C14_RetryStartsPipelineIfAvailable ==
  [][\A a \in Artists :
       (/\ runs = EmptyBag
        /\ ~discographyReleaseCache[a].has
        /\ ev'.op = "request" /\ ev'.artistId = a)
       => (/\ phase = "IDLE" /\ phase' = "ARTISTVIEW"
           /\ ev'.outcome = "started"
           /\ started' = started + 1
           /\ \/ /\ ev'.fetch = Fetch("overview", a, 0)
                 /\ runs' = SetToBag({Frame(a, "overview", JNull, FALSE)})
              \/ /\ ev'.fetch = NoFetch
                 /\ runs' = SetToBag({Frame(a, "viewDone", JNull, FALSE)}))]_vars

\* a run for A has just ended without caching, no run is in progress, and the
\* next requestDiscography(A) starts a pipeline with a new overview fetch
C14_Witness ==
  /\ ev.op = "return" /\ ev.artistId = "A" /\ ev.outcome \in FailureOutcomes
  /\ runs = EmptyBag
  /\ ~discographyReleaseCache["A"].has
  /\ ENABLED (/\ Request("A")
              /\ phase' = "ARTISTVIEW"
              /\ ev'.fetch = Fetch("overview", "A", 0))

\* C15: a failure of the overview fetch sets phase = ABORTED exactly when it
\* carries a rate-limit signal; any other failure leaves the phase as it was; in
\* both cases the run is left without a payload, and a run without a payload
\* returns the empty list and leaves discographyReleaseCache unchanged.
C15_OverviewFailureAbortsIffRateLimited ==
  [][/\ ev'.op = "overviewReject"
        => (/\ ev'.outcome = "rateLimited" => phase' = "ABORTED"
            /\ ev'.outcome = "rejected" => phase' = phase
            /\ ev'.outcome \in {"rateLimited", "rejected"}
            /\ \E f \in BagToSet(runs') :
                  /\ f.artistId = ev'.artistId /\ f.pc = "viewDone"
                  /\ f.view = JNull /\ ~f.threw
                  /\ CopiesIn(f, runs') > CopiesIn(f, runs))
     /\ \A f \in Frames :
          (/\ f.pc = "viewDone" /\ f.view = JNull /\ ~f.threw
           /\ runs' = runs (-) SetToBag({f}))
          => (/\ ev'.op = "return" /\ ev'.value = <<>>
              /\ discographyReleaseCache' = discographyReleaseCache)]_vars

\* a failure without rate-limit signal has left the phase at ARTISTVIEW
C15_Witness ==
  /\ ev.op = "overviewReject" /\ ev.outcome = "rejected"
  /\ phase = "ARTISTVIEW"

\* C16: when a page fetch rejects with a rate-limit error, the run issues no
\* further page fetch and phase is set to ABORTED.
C16_PageRateLimitAborts ==
  [][(ev'.op = "pageReject" /\ ev'.outcome = "rateLimited")
       => (/\ ev'.fetch = NoFetch
           /\ \A f \in BagToSet(runs') :
                 CopiesIn(f, runs') > CopiesIn(f, runs) => f.pc = "pagedDone"
           /\ phase' = "ABORTED")]_vars

\* the steps of hydrateAlbumDetails
HydrateOps == {"hydrate", "hydrateDelay", "hydrateReturn"}

\* the outcomes with which a hydration fails after its fetch was issued
HydrateFailures == {"rateLimited", "rejected", "noObject"}

\* C13: no call of fetchDiscographyForArtist or hydrateAlbumDetails ends with a
\* rejected promise, whatever the fetches do: a run returns a list of releases, a
\* hydration returns null or the release of the id it was called with.
C13_PublicOperationsNeverRaise ==
  /\ ev.outcome # "raised"
  /\ ev.op = "return"
       => \A i \in 1..Len(ev.value) : ev.value[i].id.t = "str"
  /\ (ev.op = "hydrateReturn" \/ (ev.op = "hydrate" /\ ev.outcome = "cacheHit"))
       => (ev.value = <<>> \/ (Len(ev.value) = 1 /\ ev.value[1].id = S(ev.albumId)))

\* a detail fetch has been rejected without rate-limit signal and the hydration
\* has returned null
C13_Witness ==
  /\ ev.op = "hydrateReturn" /\ ev.outcome = "rejected"
  /\ ev.value = <<>>

\* C17: a hydrateAlbumDetails(id) made when albumCache has id returns a release
\* (not null) at once: no delay is waited, no fetch is issued, and no variable
\* of the controller changes.
C17_HydrationCacheHit ==
  [][\A id \in AlbumIds :
       (albumCache[id].has /\ ev'.op = "hydrate" /\ ev'.albumId = id)
       => (/\ Len(ev'.value) = 1
           /\ ev'.value[1].id = S(id)
           /\ ev'.fetch = NoFetch
           /\ UNCHANGED <<phase, activeArtistId, currentReleases,
                          discographyReleaseCache, albumCache, runs, hydrations>>)]_vars

\* a cached album has been served while a run of the pipeline and another
\* hydration were waiting
C17_Witness ==
  /\ ev.op = "hydrate" /\ ev.outcome = "cacheHit"
  /\ runs # EmptyBag
  /\ hydrations # EmptyBag

C19_HydrationIsolated ==
  [][ev'.op \in HydrateOps
       => UNCHANGED <<phase, activeArtistId, currentReleases,
                      discographyReleaseCache, runs>>]_vars

\* a detail fetch has been rate-limited while a run of the pipeline waited, and
\* the phase is still ARTISTVIEW
C19_Witness ==
  /\ ev.op = "hydrateReturn" /\ ev.outcome = "rateLimited"
  /\ phase = "ARTISTVIEW"
  /\ \E f \in Frames : f.pc \in SuspensionPoints /\ ~f.aborted

\* C20: calls of hydrateAlbumDetails for the same uncached id are de-duplicated:
\* no two detail fetches for one id are in flight at the same time.
C20_OneDetailFetchPerId ==
  \A id \in AlbumIds :
     SumOver(hydrations, {h \in HFrames : h.albumId = id /\ h.pc = "detail"}) <= 1

\* C21: getDiscographyStatus() returns the current phase, the current
\* activeArtistId and the length of currentReleases, and changes no variable of
\* the controller.
C21_StatusIsPureRead ==
  [][ev'.op = "status"
       => (/\ ev'.value[1].phase = phase
           /\ ev'.value[1].artistId = activeArtistId
           /\ ev'.value[1].releasesCount = Len(currentReleases)
           /\ UNCHANGED <<phase, activeArtistId, currentReleases,
                          discographyReleaseCache, albumCache, runs, hydrations>>)]_vars

\* the status has been read with releases in currentReleases while a hydration waited
C21_Witness ==
  /\ ev.op = "status"
  /\ ev.value[1].releasesCount > 0
  /\ hydrations # EmptyBag

\* the position of release r in list
PosIn(list, r) == CHOOSE i \in 1..Len(list) : list[i] = r

\* the place of a release date in the order of strings
DateOrder(date) == DateRank(ToStringJS(date)[1])

\* list holds the releases of merged, newest date first, the releases without
\* date last, and releases of one date in the order merged has them
SortedNewestFirst(merged, list) ==
  /\ Len(list) = Len(merged)
  /\ \A i \in 1..Len(merged) : \E j \in 1..Len(list) : list[j] = merged[i]
  /\ \A i, j \in 1..Len(list) :
       i < j => /\ DateOrder(list[i].release_date) >= DateOrder(list[j].release_date)
                /\ list[i].release_date = EmptyStr => list[j].release_date = EmptyStr
                /\ list[i].release_date = list[j].release_date
                     => PosIn(merged, list[i]) < PosIn(merged, list[j])

\* C22: the list a successful run returns is the merged release set ordered by
\* release date, newest first under string comparison, releases with an empty
\* date last, releases of equal date in their merge order.
C22_ReturnedListSorted ==
  [][(ev'.op = "return" /\ ev'.outcome = "success")
       => \A f \in Frames : SortedNewestFirst(f.releasesMap, ev'.value)]_vars

\* a run has returned three releases that were merged oldest first, two of them
\* with the same date
C22_Witness ==
  /\ ev.op = "return" /\ ev.outcome = "success"
  /\ Len(ev.value) = 3
  /\ ev.value[1].release_date = S("2022-06-15")
  /\ ev.value[2].release_date = S("2020-01-01")
  /\ ev.value[3].release_date = S("2020-01-01")
  /\ ev.value[1].id = S("r3")
  /\ ev.value[2].id = S("r2")
  /\ ev.value[3].id = S("r1")

\* every release of list has a non-empty id and a non-empty name
IdAndName(list) ==
  \A i \in 1..Len(list) : Truthy(list[i].id) /\ Truthy(list[i].name)

\* C23: every release in a list returned by fetchDiscographyForArtist, held in
\* currentReleases or stored in discographyReleaseCache has a non-empty id and a
\* non-empty name.
C23_ReleasesHaveIdAndName ==
  /\ IdAndName(currentReleases)
  /\ \A a \in Artists : IdAndName(discographyReleaseCache[a].list)
  /\ ev.op \in {"request", "return"} => IdAndName(ev.value)

\* a run has returned and cached the releases of a payload that also held an
\* item without id: the item was dropped
C23_Witness ==
  /\ ev.op = "return" /\ ev.outcome = "success" /\ ev.artistId = "A"
  /\ \E i \in 1..Len(ev.value) : ev.value[i].id = S("A2")
  /\ \A i \in 1..Len(ev.value) : ev.value[i].name # S("Foo")
  /\ discographyReleaseCache["A"] = Cached(ev.value)

\* the uri an item resolves to: its own, that of its link, that of its album
ResolvedUri(item) ==
  IF Truthy(Get(item, "uri")) THEN Get(item, "uri")
  ELSE IF Truthy(Get2(item, "link", "uri")) THEN Get2(item, "link", "uri")
  ELSE IF Truthy(Get2(item, "album", "uri")) THEN Get2(item, "album", "uri")
  ELSE EmptyStr

\* an identifier is resolvable: the item id, else the last ':'-segment of the uri
IdResolvable(item) ==
  \/ Truthy(Get(item, "id"))
  \/ LET uri == ResolvedUri(item)
     IN uri.t = "str" /\ Len(uri.v) > 1 /\ uri.v[Len(uri.v)] # ""

\* a name is resolvable from one of the alternative name fields
NameResolvable(item) ==
  \/ \E k \in {"name", "title", "displayName", "release_name"} : Truthy(Get(item, k))
  \/ \E p \in {<<"album", "name">>, <<"metadata", "name">>, <<"content", "name">>,
               <<"header", "title">>, <<"header", "subtitle">>, <<"headerData", "title">>} :
        Truthy(Get2(item, p[1], p[2]))

\* the type tag of an item: the first non-empty of its type fields
TypeTag(item) ==
  IF Truthy(Get(item, "album_type")) THEN Get(item, "album_type")
  ELSE IF Truthy(Get(item, "albumType")) THEN Get(item, "albumType")
  ELSE IF Truthy(Get(item, "type")) THEN Get(item, "type")
  ELSE IF Truthy(Get(item, "release_type")) THEN Get(item, "release_type")
  ELSE EmptyStr

\* the item is release-like: by its lower-cased type tag or by its uri
ReleaseLike(item) ==
  \/ LowerSeq(ToStringJS(TypeTag(item)))
       \in {<<"album">>, <<"single">>, <<"compilation">>, <<"appears_on">>, <<"ep">>}
  \/ LET uri == ResolvedUri(item)
     IN uri.t = "str" /\ \E i \in 1..Len(uri.v) : HasAlbumSubstr(uri.v[i])

\* C24: normalizeReleaseItem returns a release exactly when an identifier is
\* resolvable, a name is resolvable and the item is release-like; otherwise it
\* returns null.
C24_NormalizeAcceptsExactly ==
  [][ev'.op = "normalize"
       => (ev'.value # NoRelease
             <=> (/\ IdResolvable(ev.value)
                  /\ NameResolvable(ev.value)
                  /\ ReleaseLike(ev.value)))]_vars

\* an item without id and type tag has been accepted by its album uri, the id
\* taken from the last segment of the uri
C24_Witness ==
  /\ ev.op = "normalize"
  /\ ev.value # NoRelease
  /\ ev.value.id = S("u")
  /\ ev.value.album_type = EmptyStr

RECURSIVE IdsWithin(_, _)
\* the ids of the normalizable objects found in value at nesting depth 0 to d,
\* an array and an object each counting one level
IdsWithin(value, d) ==
  IF d < 0 THEN {}
  ELSE IF value.t = "arr"
       THEN UNION {IdsWithin(value.v[i], d - 1) : i \in 1..Len(value.v)}
  ELSE IF value.t = "obj"
       THEN (IF normalizeReleaseItem(value) # NoRelease
             THEN {normalizeReleaseItem(value).id} ELSE {})
            \cup UNION {IdsWithin(value.v[i][2], d - 1) : i \in 1..Len(value.v)}
  ELSE {}

\* C25: collectReleasesDeep applied to an empty map yields a map with exactly the
\* ids of the normalizable objects located at nesting depth 0 to 10, each once;
\* an object found only deeper has no entry (which also ends the traversal of a
\* cyclic object graph).
C25_CollectDepthCeiling ==
  ev.op = "collect"
    => LET map == ev.value.map
           expected == IdsWithin(ev.value.value, 10)
       IN /\ {map[i].id : i \in 1..Len(map)} = expected
          /\ Cardinality(expected) = Len(map)

\* a tower of releases deeper than the ceiling has been collected: the release
\* of level 10 has an entry, that of level 11 has none
C25_Witness ==
  /\ ev.op = "collect"
  /\ Len(ev.value.map) = 11
  /\ ev.value.map[11].id = S("d10")
  /\ ev.value.value = Tower(MaxNest, 0, 1)

(* ---------------- C26 ---------------- *)
\* the transitions of the specified machine
MachineTransitions ==
  {<<"IDLE", "ARTISTVIEW">>, <<"ARTISTVIEW", "DONE">>, <<"ARTISTVIEW", "ABORTED">>,
   <<"DONE", "IDLE">>, <<"ABORTED", "IDLE">>}

\* the values phase takes during a step: the one before it, then each one written
PhaseTrail == <<phase>> \o ev'.phases

\* C26: every change of phase, between one write and the next, is a transition of
\* the specified machine: IDLE to ARTISTVIEW, ARTISTVIEW to DONE or ABORTED,
\* DONE or ABORTED to IDLE (so never ARTISTVIEW to IDLE directly, never ABORTED
\* to DONE, never COOLDOWN or HYDRATING)
C26_PhaseChangesFollowMachine ==
  [][\A i \in 1..(Len(PhaseTrail) - 1) :
       PhaseTrail[i] # PhaseTrail[i + 1]
         => <<PhaseTrail[i], PhaseTrail[i + 1]>> \in MachineTransitions]_vars

(* ---------------- C27 ---------------- *)
\* C27: under a host whose fetches settle and whose delays elapse, every call in
\* progress eventually returns; and whenever no run is in progress, phase is IDLE
\* and activeArtistId is none, whatever the outcome of the runs that ended
C27_RunsReturnAndTearDown ==
  /\ [](runs = EmptyBag => phase = "IDLE" /\ activeArtistId = NoArtist)
  /\ Suspended ~> (runs = EmptyBag)

\* the last run in progress has returned after an abort, and the controller is idle
C27_Witness ==
  /\ ev.op = "return"
  /\ ev.aborted
  /\ runs = EmptyBag
  /\ phase = "IDLE"
  /\ activeArtistId = NoArtist

(* ---------------- C28 ---------------- *)
\* the step moved run f on, and the fetch it issued is a page fetch of that run
IssuesPage(f) ==
  /\ CopiesIn(f, runs') < CopiesIn(f, runs)
  /\ ev'.fetch = Fetch("page", f.artistId, f.offset)

\* a page fetch is issued only by a run that awaits no fetch: one whose overview
\* fetch has resolved with data and that has fetched no page yet, or one whose
\* previous page fetch has resolved and whose delay has just elapsed
PagesInSequence ==
  ev'.fetch.kind = "page"
    => \E f \in Frames :
         /\ IssuesPage(f)
         /\ \/ f.pc = "viewDone" /\ Truthy(f.view) /\ f.page = 0
            \/ f.pc = "delay" /\ f.page >= 1

\* an overview fetch is issued only by the step that starts a run, for its artist
OverviewOnlyAtStart ==
  ev'.fetch.kind = "overview"
    => /\ ev'.op = "request" /\ ev'.outcome = "started"
       /\ ev'.fetch.artistId = ev'.artistId
       /\ started' = started + 1

\* C28 as stated: every run issues exactly one overview fetch (at its start, and
\* nowhere else), and page fetches are issued only after the overview fetch, resp.
\* the previous page fetch, has settled
C28_OneOverviewThenPagesInSequence ==
  [][/\ (ev'.op = "request" /\ ev'.outcome = "started") => ev'.fetch.kind = "overview"
     /\ OverviewOnlyAtStart
     /\ PagesInSequence]_vars

\* C28 amended: a run issues at most one overview fetch, at its start; it issues
\* none only when the host's fetch capability is missing, and then the run is left
\* with a null view, from which no page fetch follows; page fetches are issued only
\* after the overview fetch, resp. the previous page fetch, has settled
C28_AtMostOneOverviewThenPagesInSequence ==
  [][/\ (ev'.op = "request" /\ ev'.outcome = "started")
          => \/ ev'.fetch.kind = "overview"
             \/ /\ ev'.fetch = NoFetch
                /\ CopiesIn(Frame(ev'.artistId, "viewDone", JNull, FALSE), runs')
                     > CopiesIn(Frame(ev'.artistId, "viewDone", JNull, FALSE), runs)
     /\ OverviewOnlyAtStart
     /\ PagesInSequence]_vars

\* a run has issued its second page fetch: the overview fetch and the first page
\* fetch have both resolved before
C28_Witness ==
  /\ ev.op = "delay"
  /\ ev.fetch.kind = "page"
  /\ \E f \in Frames : f.pc = "page" /\ f.page = 1 /\ f.artistId = ev.fetch.artistId

(* ---------------- C29 ---------------- *)
\* C29: between two consecutive page fetches of a run the inter-page delay is
\* awaited in full: the step in which a page fetch resolves issues no fetch and
\* leaves the run waiting for the delay when a next page is to follow, and a page
\* fetch after the first (offset above 0) is issued only by the step in which the
\* delay of that run elapses
C29_DelayBetweenPages ==
  [][/\ ev'.op = "pageResolve"
          => /\ ev'.fetch = NoFetch
             /\ \A f \in Frames :
                  (f.pc = "page" /\ CopiesIn(f, runs') < CopiesIn(f, runs))
                    => \E g \in BagToSet(runs') :
                         /\ g.artistId = f.artistId
                         /\ g.pc \in {"delay", "pagedDone"}
                         /\ g.pc = "delay" <=> g.page = f.page + 1
                         /\ g.pc = "delay" <=> g.wait = 5000
     /\ (ev'.fetch.kind = "page" /\ ev'.fetch.offset > 0)
          => /\ ev'.op = "delay"
             /\ \E f \in Frames :
                  /\ f.pc = "delay"
                  /\ f.wait = 5000
                  /\ f.artistId = ev'.fetch.artistId
                  /\ f.offset = ev'.fetch.offset
                  /\ CopiesIn(f, runs') < CopiesIn(f, runs)]_vars

\* the delay after the first page has elapsed and the second page fetch is issued
C29_Witness ==
  /\ ev.op = "delay"
  /\ ev.fetch.kind = "page"
  /\ ev.fetch.offset > 0
  /\ \E f \in Frames : f.pc = "page" /\ f.offset = ev.fetch.offset

(* ---------------- C30 ---------------- *)
\* C30: a run issues at most 2 page fetches, each with page size 50, the k-th at
\* offset 50 * (k - 1): a page fetch is the k-th of its run when the run has moved
\* on from k - 1 pages, k is 1 or 2, and no run moves on from more than 2 pages
C30_TwoPagesOfFifty ==
  [][/\ ev'.fetch.kind = "page"
          => /\ ev'.fetch.limit = 50
             /\ \E f \in Frames : \E k \in {1, 2} :
                  /\ IssuesPage(f)
                  /\ f.page = k - 1
                  /\ ev'.fetch.offset = 50 * (k - 1)
     /\ \A g \in BagToSet(runs') :
          /\ g.page <= 2
          /\ g.pc = "page" => g.page < 2]_vars

\* a run has issued its second page fetch, for 50 items from offset 50
C30_Witness ==
  /\ ev.fetch.kind = "page"
  /\ ev.fetch.limit = 50
  /\ ev.fetch.offset = 50
  /\ \E f \in Frames : f.pc = "page" /\ f.page = 1

(* ---------------- C31 ---------------- *)
\* a page response without items: items is no array, or an empty one
ZeroItems(data) ==
  Get(data, "items").t # "arr" \/ Len(Get(data, "items").v) = 0

\* a page response that indicates no further page
NoFurtherPage(data) == ~Truthy(Get(data, "next"))

\* C31: when a page fetch resolves with zero items (whatever its next-page
\* indicator) or with no further page, the step issues no fetch and leaves the run
\* out of the loop, awaiting no delay; and a run that has left the loop moves only
\* by returning, without a fetch
C31_PagingStops ==
  [][/\ \A f \in Frames : \A data \in PageResponses(f.artistId) :
          (PageResolve(f, data) /\ (ZeroItems(data) \/ NoFurtherPage(data)))
            => /\ ev'.fetch = NoFetch
               /\ \E g \in BagToSet(runs') :
                    /\ CopiesIn(g, runs') > CopiesIn(g, runs)
                    /\ g.artistId = f.artistId
                    /\ g.pc = "pagedDone"
                    /\ g.wait = 0
                    /\ g.page = f.page
     /\ \A f \in Frames :
          (f.pc = "pagedDone" /\ CopiesIn(f, runs') < CopiesIn(f, runs))
            => (ev'.op = "return" /\ ev'.fetch = NoFetch)]_vars

\* the first page of artist A, whose pages all name a next page, has resolved
\* without items, and the run has left the loop
C31_Witness ==
  /\ ev.op = "pageResolve"
  /\ ev.artistId = "A"
  /\ \E f \in Frames : f.artistId = "A" /\ f.pc = "pagedDone" /\ f.page = 0

(* ---------------- C32 ---------------- *)
\* every release of map m is in list l
AllIn(m, l) == \A i \in 1..Len(m) : \E j \in 1..Len(l) : l[j] = m[i]

\* C32: paging never loses a release: whenever a run inside the paging loop (at a
\* page fetch or at the delay) moves, be it by a page that resolves with or without
\* items or without a next page, by a page fetch that throws, or by an abort
\* observed at the loop head, its merged release set still holds, in the same
\* order, every release it held before; and a run that returns its sorted list
\* returns every release of its merged set
C32_EarlyStopKeepsCollected ==
  [][/\ \A f \in Frames :
          (f.pc \in {"page", "delay"} /\ CopiesIn(f, runs') < CopiesIn(f, runs))
            => \E g \in BagToSet(runs') :
                 /\ CopiesIn(g, runs') > CopiesIn(g, runs)
                 /\ g.artistId = f.artistId
                 /\ g.pc \in {"page", "delay", "pagedDone"}
                 /\ Len(g.releasesMap) >= Len(f.releasesMap)
                 /\ \A i \in 1..Len(f.releasesMap) : g.releasesMap[i] = f.releasesMap[i]
     /\ \A f \in Frames :
          (/\ f.pc = "pagedDone"
           /\ CopiesIn(f, runs') < CopiesIn(f, runs)
           /\ ev'.outcome = "success")
            => (AllIn(f.releasesMap, ev'.value) /\ Len(ev'.value) = Len(f.releasesMap))]_vars

\* a run has observed the abort at the loop head after its first page and has left
\* the loop with the releases collected so far
C32_Witness ==
  /\ ev.op = "delay"
  /\ phase = "ABORTED"
  /\ \E f \in Frames :
       /\ f.pc = "pagedDone"
       /\ f.page = 1
       /\ f.aborted
       /\ Len(f.releasesMap) > 0

(* ---------------- C33 ---------------- *)
\* C33: a fetch result that arrives while phase is ABORTED is discarded: a page
\* that resolves then adds nothing to the merged release set of its run, and an
\* overview that resolves then leaves the run without a view
C33_AbortedResultDiscarded ==
  [][\A f \in Frames :
       /\ \A data \in PageResponses(f.artistId) :
            (phase = "ABORTED" /\ PageResolve(f, data))
              => \E g \in BagToSet(runs') :
                   /\ CopiesIn(g, runs') > CopiesIn(g, runs)
                   /\ g.artistId = f.artistId
                   /\ g.releasesMap = f.releasesMap
       /\ \A data \in OverviewResponses(f.artistId) :
            (phase = "ABORTED" /\ OverviewResolve(f, data))
              => \E g \in BagToSet(runs') :
                   /\ CopiesIn(g, runs') > CopiesIn(g, runs)
                   /\ g.artistId = f.artistId
                   /\ g.view = JNull]_vars

(* ---------------- C34 ---------------- *)
\* C34: a run aborted while it awaited its overview fetch, with no other run
\* beside it, discards the response when the fetch settles (its view is null) and
\* then returns the empty list; on the way it issues no page fetch and leaves
\* discographyReleaseCache as it was, and phase ends IDLE with no active artist
C34_AbortDuringOverview ==
  [][\A f \in Frames :
       (f.aborted /\ f.pc \in {"overview", "viewDone"}
          /\ CopiesIn(f, runs') < CopiesIn(f, runs))
         => /\ ev'.fetch = NoFetch
            /\ discographyReleaseCache' = discographyReleaseCache
            /\ f.pc = "overview"
                 => \E g \in BagToSet(runs') :
                      /\ CopiesIn(g, runs') > CopiesIn(g, runs)
                      /\ g.pc = "viewDone"
                      /\ g.view = JNull
            /\ f.pc = "viewDone"
                 => /\ ev'.op = "return"
                    /\ ev'.value = <<>>
                    /\ runs' = EmptyBag
                    /\ phase' = "IDLE"
                    /\ activeArtistId' = NoArtist]_vars

\* the run aborted at its overview fetch has returned the empty list; nothing is
\* cached and the controller is idle
C34_Witness ==
  /\ ev.op = "return"
  /\ ev.outcome = "failed"
  /\ ev.aborted
  /\ ev.value = <<>>
  /\ phase = "IDLE"
  /\ \A a \in Artists : ~discographyReleaseCache[a].has

(* ---------------- C35 ---------------- *)
\* the first position in traversal order o at which id occurs
FirstAt(o, id) == CHOOSE i \in 1..Len(o) : o[i][1] = id /\ \A j \in 1..(i - 1) : o[j][1] # id

\* C35: the merged release set holds one release per id met in traversal order
\* (pre-order of the overview, then the paged items in page order), and the
\* release under an id is the first one met: it has the name of the first item
\* with that id, whatever later items with the id say, and the releases stand in
\* the order in which their ids were first met
C35_FirstSeenWins ==
  ev.op = "merge"
    => LET m == ev.value.map
           o == ev.value.order
       IN /\ \A i, j \in 1..Len(m) : i # j => m[i].id # m[j].id
          /\ {m[k].id : k \in 1..Len(m)} = {S(o[i][1]) : i \in 1..Len(o)}
          /\ \A k \in 1..Len(m) :
               \E i \in 1..Len(o) :
                 /\ m[k].id = S(o[i][1])
                 /\ i = FirstAt(o, o[i][1])
                 /\ m[k].name = S(o[i][2])
          /\ \A k, l \in 1..Len(m) :
               k < l => FirstAt(o, m[k].id.v[1]) < FirstAt(o, m[l].id.v[1])

\* an overview release r1 named N, then a paged item r1 named M: the set holds
\* the overview release
C35_Witness ==
  /\ ev.op = "merge"
  /\ ev.value.order = << <<"r1", "N">>, <<"r1", "M">> >>
  /\ Len(ev.value.pages) = 1
  /\ Len(PageItems(ev.value.pages[1])) = 1
  /\ Len(ev.value.map) = 1
  /\ ev.value.map[1].name = S("N")

(* ---------------- C36 ---------------- *)
\* a call of hydrateAlbumDetails for an id albumCache does not have issues no
\* fetch and waits at the delay of 30000 ms
MissWaits ==
  \A id \in AlbumIds :
    (~albumCache[id].has /\ ev'.op = "hydrate" /\ ev'.albumId = id)
      => /\ ev'.fetch = NoFetch
         /\ \E h \in BagToSet(hydrations') :
              /\ CopiesIn(h, hydrations') > CopiesIn(h, hydrations)
              /\ h.albumId = id /\ h.pc = "delay" /\ h.wait = 30000

\* the call that left its delay has issued the detail fetch for its id and awaits it
FetchIssued(h) ==
  /\ ev'.fetch.kind = "detail"
  /\ ev'.albumId = h.albumId
  /\ \E g \in BagToSet(hydrations') :
       /\ CopiesIn(g, hydrations') > CopiesIn(g, hydrations)
       /\ g.albumId = h.albumId /\ g.pc = "detail"

\* a call that awaits its detail fetch issues no other fetch, and ends when the
\* fetch settles; when it resolves with an album object, the object is stored as
\* it is under the id and the release returned has the id requested
FetchSettles ==
  \A h \in HFrames :
    /\ (h.pc = "detail" /\ CopiesIn(h, hydrations') < CopiesIn(h, hydrations))
         => (ev'.op = "hydrateReturn" /\ ev'.fetch = NoFetch /\ ev'.albumId = h.albumId)
    /\ \A album \in DetailResponses(h.albumId) :
         (Truthy(album) /\ HydrateResolve(h, album))
           => /\ albumCache' = [albumCache EXCEPT ![h.albumId] = Detail(album)]
              /\ Len(ev'.value) = 1
              /\ ev'.value[1].id = S(h.albumId)

\* C36 as stated: on a cache miss the call waits the delay of 30000 ms, and when
\* the delay has elapsed it issues the one detail fetch for its id; on success the
\* raw detail is stored under the id and the release returned has that id
C36_DelayThenOneFetch ==
  [][/\ MissWaits
     /\ \A h \in HFrames :
          (h.pc = "delay" /\ CopiesIn(h, hydrations') < CopiesIn(h, hydrations))
            => FetchIssued(h)
     /\ FetchSettles]_vars

\* C36 amended: when the delay has elapsed the call issues the one detail fetch for
\* its id, unless the host offers no fetch capability: then it issues none and
\* returns null; the rest as stated
C36_DelayThenAtMostOneFetch ==
  [][/\ MissWaits
     /\ \A h \in HFrames :
          (h.pc = "delay" /\ CopiesIn(h, hydrations') < CopiesIn(h, hydrations))
            => \/ FetchIssued(h)
               \/ /\ ev'.op = "hydrateReturn" /\ ev'.albumId = h.albumId
                  /\ ev'.fetch = NoFetch
                  /\ ev'.value = <<>>
                  /\ albumCache' = albumCache
     /\ FetchSettles]_vars

\* the detail of X7, an object without a name, has been fetched after the delay
\* and stored, and the release returned has id X7
C36_Witness ==
  /\ ev.op = "hydrateReturn"
  /\ ev.outcome = "success"
  /\ ev.albumId = "X7"
  /\ albumCache["X7"].has
  /\ ev.value[1].id = S("X7")

(* ---------------- C37 ---------------- *)
\* C37: a call that fetched the detail of an id with success has returned the
\* release built from the album it stored, and a later call for that id, answered
\* from albumCache, returns a release equal to it in id, name, release_date,
\* album_type, uri and imageUrl
C37_CacheHitEqualsFetched ==
  [][/\ (ev'.op = "hydrateReturn" /\ ev'.outcome = "success")
          => ev'.value = <<ReleaseFromFetch(ev'.albumId, albumCache'[ev'.albumId].detail)>>
     /\ \A id \in AlbumIds :
          (HydrateCacheHit(id) /\ ev'.op = "hydrate" /\ ev'.albumId = id)
            => LET fetched == ReleaseFromFetch(id, albumCache[id].detail)
                   again == ev'.value[1]
               IN  /\ Len(ev'.value) = 1
                   /\ again.id = fetched.id
                   /\ again.name = fetched.name
                   /\ again.release_date = fetched.release_date
                   /\ again.album_type = fetched.album_type
                   /\ again.uri = fetched.uri
                   /\ again.imageUrl = fetched.imageUrl]_vars

(* ---------------- C38 ---------------- *)
\* the phase an internal operation requires
RequiredPhase(op) ==
  CASE op = "fetchArtistView" -> "ARTISTVIEW"
    [] op = "cooldown" -> "COOLDOWN"
    [] op = "hydrateAlbumsBatch" -> "HYDRATING"

\* C38: fetchArtistView, cooldown or hydrateAlbumsBatch called while the phase is
\* not the one it requires fails with the invalid-phase error: it has issued no
\* fetch, waits for no fetch and no delay, and has changed no state
C38_PhaseGuard ==
  [][\A op \in {"fetchArtistView", "cooldown", "hydrateAlbumsBatch"} :
       (ev'.op = op /\ phase # RequiredPhase(op))
         => /\ ev'.outcome = "invalidPhase"
            /\ ev'.fetch = NoFetch
            /\ runs' = runs /\ hydrations' = hydrations
            /\ UNCHANGED <<phase, activeArtistId, currentReleases,
                           discographyReleaseCache, albumCache>>]_vars

\* hydrateAlbumsBatch was called in phase COOLDOWN with A1 already hydrated, and
\* has failed with the invalid-phase error
C38_Witness ==
  /\ ev.op = "hydrateAlbumsBatch"
  /\ ev.outcome = "invalidPhase"
  /\ phase = "COOLDOWN"
  /\ albumCache["A1"].has
  /\ runs = EmptyBag /\ hydrations = EmptyBag

====
